---- MODULE Spec2Model ----
(***************************************************************************)
(* The Space resource of the backend: controller handlers, usecases and    *)
(* the repository over the Prisma store (model Space).                     *)
(*                                                                         *)
(* Request bodies are JSON values, written as records with a tag t.        *)
(* Text (names, ids, error messages, ISO timestamps) is kept as strings,   *)
(* so that trim(), includes() and toISOString() are computed, not assumed. *)
(* Time is the store's clock in milliseconds since the epoch.              *)
(***************************************************************************)
EXTENDS Integers, Sequences, FiniteSets, Bags, TLC

VARIABLES store, clock, nextId, pc, req, resp, calls, overlap, before, deleted, fresh,
          listed, fault, http, thrown, classified, inflight, last, cache, view, queries, svc, users, ures, form, server, pending

vars == <<store, clock, nextId, pc, req, resp, calls, overlap, before, deleted, fresh,
          listed, fault, http, thrown, classified, inflight, last, cache, view, queries, svc, users, ures, form, server, pending>>

(***************************************************************************)
(* Bounds of the model.                                                    *)
(***************************************************************************)
\* how many records are ever created (ids handed out by cuid())
MaxSpaces == 2
\* the last value of the clock
MaxClock == 1
\* the most requests handled while the handler of another one waits
MaxOverlap == 1

\* Prisma's Int is a 32-bit signed integer (capacity Int)
StoreIntMax == 2147483647

(***************************************************************************)
(* JSON values. A value is [t, s, k, n, d]: t its type, s the text of a    *)
(* string (for an array or an object, the string it converts to), k the    *)
(* kind of a number and n/d its value (d > 0) when the kind is "rat"; the  *)
(* other kinds are listed with the numbers below.                          *)
(***************************************************************************)
JV(t, s, k, n, d) == [t |-> t, s |-> s, k |-> k, n |-> n, d |-> d]
Undefined == JV("undefined", "", "", 0, 1)
Null == JV("null", "", "", 0, 1)
Str(s) == JV("string", s, "", 0, 1)
Num(n, d) == JV("number", "", "rat", n, d)
NaN == JV("number", "", "nan", 0, 1)
Big == JV("number", "", "big", 0, 1)
\* true and false; an array and an object, kept as the string that String()
\* gives for them (the elements joined by commas; "[object Object]")
Bool(b) == JV("boolean", "", "", IF b THEN 1 ELSE 0, 1)
Arr(s) == JV("array", s, "", 0, 1)
Obj == JV("object", "[object Object]", "", 0, 1)

(***************************************************************************)
(* String helpers: String.prototype.includes and String.prototype.trim.    *)
(***************************************************************************)
Includes(s, sub) ==
    \E i \in 1..(Len(s) - Len(sub) + 1) : SubSeq(s, i, i + Len(sub) - 1) = sub

\* WhiteSpace and LineTerminator of ECMAScript, the characters that trim()
\* removes: space, TAB, LF, CR, FF, VT (U+000B), NBSP (U+00A0), U+1680 and
\* U+FEFF, the last four written as the characters themselves. The others
\* (U+2000 to U+200A, U+2028, U+2029, U+202F, U+205F, U+3000) cannot be
\* written in a string of this module, so no text here holds them.
IsSpace(c) ==
    c \in {" ", "\t", "\n", "\r", "\f", "", " ", " ", "﻿"}

RECURSIVE trimStart(_)
trimStart(s) ==
    IF Len(s) > 0 /\ IsSpace(SubSeq(s, 1, 1))
    THEN trimStart(SubSeq(s, 2, Len(s)))
    ELSE s

RECURSIVE trimEnd(_)
trimEnd(s) ==
    IF Len(s) > 0 /\ IsSpace(SubSeq(s, Len(s), Len(s)))
    THEN trimEnd(SubSeq(s, 1, Len(s) - 1))
    ELSE s

trim(s) == trimEnd(trimStart(s))

Digit(n) == SubSeq("0123456789", n + 1, n + 1)

IsDigit(c) == c \in {"0", "1", "2", "3", "4", "5", "6", "7", "8", "9"}

DigitVal(c) == CHOOSE n \in 0..9 : Digit(n) = c

AllDigits(s) == \A i \in 1..Len(s) : IsDigit(SubSeq(s, i, i))

RECURSIVE DigitsValue(_)
DigitsValue(s) ==
    IF Len(s) = 0 THEN 0
    ELSE DigitsValue(SubSeq(s, 1, Len(s) - 1)) * 10
         + DigitVal(SubSeq(s, Len(s), Len(s)))

RECURSIVE Pow10(_)
Pow10(k) == IF k = 0 THEN 1 ELSE 10 * Pow10(k - 1)

RECURSIVE NatToString(_)
NatToString(n) ==
    IF n < 10 THEN Digit(n) ELSE NatToString(n \div 10) \o Digit(n % 10)

(***************************************************************************)
(* Numbers written as digits. The integers of the model are 32 bits wide,  *)
(* a double has 53 bits of mantissa, and a numeric string can be of any    *)
(* length, so the value of a literal is worked out on its digits: 0.D      *)
(* times a power of ten, D a string of decimal digits.                     *)
(***************************************************************************)
Char(s, i) == SubSeq(s, i, i)
From(s, i) == SubSeq(s, i, Len(s))

RECURSIVE Zeros(_)
Zeros(n) == IF n <= 0 THEN "" ELSE "0" \o Zeros(n - 1)

\* s without its leading zeros, and without its trailing zeros
StripZeros(s) ==
    LET nz == {i \in 1..Len(s) : Char(s, i) # "0"}
    IN  IF nz = {} THEN ""
        ELSE SubSeq(s, CHOOSE i \in nz : \A j \in nz : i <= j, Len(s))

StripZerosEnd(s) ==
    LET nz == {i \in 1..Len(s) : Char(s, i) # "0"}
    IN  IF nz = {} THEN ""
        ELSE SubSeq(s, 1, CHOOSE i \in nz : \A j \in nz : i >= j)

\* the i-th decimal of 0.s
Decimal(s, i) == IF i <= Len(s) THEN DigitVal(Char(s, i)) ELSE 0

\* 0.a <= 0.b for strings of decimal digits (also a <= b for two numerals
\* of the same length): decided by the first decimal in which they differ
FracLeq(a, b) ==
    LET n    == IF Len(a) < Len(b) THEN Len(b) ELSE Len(a)
        diff == {i \in 1..n : Decimal(a, i) # Decimal(b, i)}
    IN  \/ diff = {}
        \/ LET i == CHOOSE i \in diff : \A j \in diff : i <= j
           IN  Decimal(a, i) < Decimal(b, i)

\* the numeral s plus the carry c, in as many digits as s has
RECURSIVE PlusFrom(_, _)
PlusFrom(s, c) ==
    IF Len(s) = 0 THEN ""
    ELSE LET v == DigitVal(Char(s, Len(s))) + c
         IN  PlusFrom(SubSeq(s, 1, Len(s) - 1), v \div 10) \o Digit(v % 10)

\* 2^b as a numeral of 16 digits, for b from 0 to 53
TwoPowDigits(b) ==
    <<"0000000000000001", "0000000000000002", "0000000000000004",
      "0000000000000008", "0000000000000016", "0000000000000032",
      "0000000000000064", "0000000000000128", "0000000000000256",
      "0000000000000512", "0000000000001024", "0000000000002048",
      "0000000000004096", "0000000000008192", "0000000000016384",
      "0000000000032768", "0000000000065536", "0000000000131072",
      "0000000000262144", "0000000000524288", "0000000001048576",
      "0000000002097152", "0000000004194304", "0000000008388608",
      "0000000016777216", "0000000033554432", "0000000067108864",
      "0000000134217728", "0000000268435456", "0000000536870912",
      "0000001073741824", "0000002147483648", "0000004294967296",
      "0000008589934592", "0000017179869184", "0000034359738368",
      "0000068719476736", "0000137438953472", "0000274877906944",
      "0000549755813888", "0001099511627776", "0002199023255552",
      "0004398046511104", "0008796093022208", "0017592186044416",
      "0035184372088832", "0070368744177664", "0140737488355328",
      "0281474976710656", "0562949953421312", "1125899906842624",
      "2251799813685248", "4503599627370496", "9007199254740992">>[b + 1]

\* the decimals of 2^-j, for j from 1 to 54: j digits, the last one 5
TwoPowNegDigits(j) ==
    <<"5", "25", "125", "0625",
      "03125", "015625", "0078125", "00390625",
      "001953125", "0009765625", "00048828125", "000244140625",
      "0001220703125", "00006103515625", "000030517578125", "0000152587890625",
      "00000762939453125",
      "000003814697265625",
      "0000019073486328125",
      "00000095367431640625",
      "000000476837158203125",
      "0000002384185791015625",
      "00000011920928955078125",
      "000000059604644775390625",
      "0000000298023223876953125",
      "00000001490116119384765625",
      "000000007450580596923828125",
      "0000000037252902984619140625",
      "00000000186264514923095703125",
      "000000000931322574615478515625",
      "0000000004656612873077392578125",
      "00000000023283064365386962890625",
      "000000000116415321826934814453125",
      "0000000000582076609134674072265625",
      "00000000002910383045673370361328125",
      "000000000014551915228366851806640625",
      "0000000000072759576141834259033203125",
      "00000000000363797880709171295166015625",
      "000000000001818989403545856475830078125",
      "0000000000009094947017729282379150390625",
      "00000000000045474735088646411895751953125",
      "000000000000227373675443232059478759765625",
      "0000000000001136868377216160297393798828125",
      "00000000000005684341886080801486968994140625",
      "000000000000028421709430404007434844970703125",
      "0000000000000142108547152020037174224853515625",
      "00000000000000710542735760100185871124267578125",
      "000000000000003552713678800500929355621337890625",
      "0000000000000017763568394002504646778106689453125",
      "00000000000000088817841970012523233890533447265625",
      "000000000000000444089209850062616169452667236328125",
      "0000000000000002220446049250313080847263336181640625",
      "00000000000000011102230246251565404236316680908203125",
      "000000000000000055511151231257827021181583404541015625">>[j]

\* the decimals of 1 - 0.s, for s ending in a digit other than 0
RECURSIVE Nines(_)
Nines(s) ==
    IF Len(s) = 0 THEN ""
    ELSE Digit(9 - DigitVal(Char(s, 1))) \o Nines(From(s, 2))
OneMinus(s) ==
    Nines(SubSeq(s, 1, Len(s) - 1)) \o Digit(10 - DigitVal(Char(s, Len(s))))

\* the decimal numeral of 2^1024 - 2^970, 309 digits: the least value that
\* rounds to Infinity (Number.MAX_VALUE and half a unit in its last place)
InfinityFromDigits ==
    "179769313486231580793728971405303415079934132710037826936173"
    \o "778980444968292764750946649017977587207096330286416692887910"
    \o "946555547851940402630657488671505820681908902000708383676273"
    \o "854845817711531764475730270069855571366959622842914819860834"
    \o "936475292719074168444365510704342711559699508093042880177904"
    \o "174497792"

\* the decimals of 2^-1075 after their 323 leading zeros: the greatest value
\* that rounds to 0 (half of the least double above 0)
ZeroUpToDigits ==
    "247032822920623272088284396434110686182529901307162382212792"
    \o "841250337753635104375932649918180817996189898282347722858865"
    \o "463328355177969898199387398005390939063150356595155702263922"
    \o "908583924491051844359318028499365361525003193704576782492193"
    \o "656236698636584807570015857692699037063119282795585513329278"
    \o "343384093519780155312465972635795746227664652728272200563740"
    \o "064854999770965994704540208281662262378573934507363390079677"
    \o "619305775067401763246736009689513405355374585166611342237666"
    \o "786041621596804619144672918403005300575308490487653917113865"
    \o "916462395249126236538818796362393732804238910186723484976682"
    \o "350898633885879256283027559956575244555072551893136908362547"
    \o "791869486679949683240497058210285131854513962138377228261454"
    \o "37693412532098591327667236328125"

(***************************************************************************)
(* JavaScript numbers. A finite number that the model can write is the     *)
(* rational n/d with d a power of ten (kind "rat"); "big" stands for an    *)
(* integer above StoreIntMax and "negbig" for one below -StoreIntMax;      *)
(* "frac" and "negfrac" stand for a number above or below 0 that is no     *)
(* integer and has more digits than n/d holds; "inf", "neginf" and "nan"   *)
(* are Infinity, -Infinity and NaN. -0 is written 0.                       *)
(***************************************************************************)
NegBig == JV("number", "", "negbig", 0, 1)
Inf == JV("number", "", "inf", 0, 1)
NegInf == JV("number", "", "neginf", 0, 1)
Frac == JV("number", "", "frac", 0, 1)
NegFrac == JV("number", "", "negfrac", 0, 1)

\* the integer whose numeral is D followed by z zeros
IntegerOf(neg, D, z) ==
    IF \/ Len(D) + z > 10
       \/ Len(D) + z = 10 /\ ~FracLeq(D \o Zeros(z), NatToString(StoreIntMax))
    THEN (IF neg THEN NegBig ELSE Big)
    ELSE Num((IF neg THEN 0 - 1 ELSE 1) * DigitsValue(D \o Zeros(z)), 1)

\* the number 0.D * 10^p that is no integer (p < Len(D); D neither begins
\* nor ends with 0)
FractionOf(neg, D, p) ==
    IF Len(D) <= 9 /\ Len(D) - p <= 9
    THEN Num((IF neg THEN 0 - 1 ELSE 1) * DigitsValue(D), Pow10(Len(D) - p))
    ELSE (IF neg THEN NegFrac ELSE Frac)

\* the double nearest to 0.D * 10^p (ties to even), D neither beginning nor
\* ending with 0. A double below 2^52 in the binade of 2^b has 52 - b binary
\* places, so a value between the integers k and k + 1 rounds to one of
\* them when it lies within 2^(b-53) of it; from 2^52 on every double is an
\* integer; below 1 the binade is that of 1/2, and a value below 1/10 is
\* far from 1.
DecimalValue(neg, D, p) ==
    IF Len(D) = 0 THEN Num(0, 1)
    ELSE IF p > 309 \/ (p = 309 /\ FracLeq(InfinityFromDigits, D))
    THEN (IF neg THEN NegInf ELSE Inf)
    ELSE IF p < 0 - 323 \/ (p = 0 - 323 /\ FracLeq(D, ZeroUpToDigits))
    THEN Num(0, 1)
    ELSE IF Len(D) <= p
    THEN IntegerOf(neg, D, p - Len(D))
    ELSE IF p > 16
    THEN (IF neg THEN NegBig ELSE Big)
    ELSE IF p <= 0
    THEN IF p = 0 /\ FracLeq(OneMinus(TwoPowNegDigits(54)), D)
         THEN Num(IF neg THEN 0 - 1 ELSE 1, 1)
         ELSE FractionOf(neg, D, p)
    ELSE LET k  == Zeros(16 - p) \o SubSeq(D, 1, p)
             f  == From(D, p + 1)
         IN  IF FracLeq(TwoPowDigits(52), k)
             THEN (IF neg THEN NegBig ELSE Big)
             ELSE LET b  == CHOOSE e \in 0..51 :
                               /\ FracLeq(TwoPowDigits(e), k)
                               /\ ~FracLeq(TwoPowDigits(e + 1), k)
                      h  == TwoPowNegDigits(53 - b)
                  IN  IF FracLeq(f, h)
                      THEN IntegerOf(neg, StripZeros(k), 0)
                      ELSE IF FracLeq(OneMinus(h), f)
                      THEN IntegerOf(neg, StripZeros(PlusFrom(k, 1)), 0)
                      ELSE FractionOf(neg, D, p)

\* the digit c of a numeral of the radix 2, 8 or 16, in either case
RadixVal(c) ==
    CHOOSE n \in 0..15 :
        \/ c = Char("0123456789abcdef", n + 1)
        \/ c = Char("0123456789ABCDEF", n + 1)

IsRadixDigit(c, radix) ==
    \E n \in 0..(radix - 1) :
        \/ c = Char("0123456789abcdef", n + 1)
        \/ c = Char("0123456789ABCDEF", n + 1)

\* n in w binary digits
RECURSIVE BitsOf(_, _)
BitsOf(n, w) == IF w = 0 THEN "" ELSE BitsOf(n \div 2, w - 1) \o Digit(n % 2)

\* the binary numeral of a numeral whose digits stand for w bits each
RECURSIVE RadixBits(_, _)
RadixBits(s, w) ==
    IF Len(s) = 0 THEN ""
    ELSE BitsOf(RadixVal(Char(s, 1)), w) \o RadixBits(From(s, 2), w)

RECURSIVE BitsValue(_)
BitsValue(s) ==
    IF Len(s) = 0 THEN 0
    ELSE 2 * BitsValue(SubSeq(s, 1, Len(s) - 1)) + DigitVal(Char(s, Len(s)))

\* the value of the digits of 0x.., 0o.. or 0b..: an integer, or Infinity
\* from 2^1024 - 2^970 on (1024 bits, the first 54 of them set)
RadixValue(s, w) ==
    LET d    == StripZeros(s)
        top  == SubSeq(d, 1, IF Len(d) < 60 THEN Len(d) ELSE 60)
        bits == StripZeros(RadixBits(top, w))
        len  == Len(bits) + w * (Len(d) - Len(top))
    IN  IF \/ len > 1024
           \/ len = 1024 /\ \A i \in 1..54 : Char(bits, i) = "1"
        THEN Inf
        ELSE IF len > 31 THEN Big
        ELSE Num(BitsValue(bits), 1)

\* the exponent written with the digits s; an exponent of more than five
\* digits is far beyond the range of a double whatever the mantissa (a JSON
\* body holds at most 100 kB)
ExponentValue(s) ==
    IF Len(StripZeros(s)) > 5 THEN 99999 ELSE DigitsValue(StripZeros(s))

\* the digits of an exponent part without its sign
ExponentDigits(expo) ==
    IF Len(expo) > 0 /\ Char(expo, 1) \in {"-", "+"} THEN From(expo, 2) ELSE expo

\* an exponent part is an optional sign and at least one digit
IsExponent(expo) ==
    Len(ExponentDigits(expo)) > 0 /\ AllDigits(ExponentDigits(expo))

SignedExponent(expo) ==
    IF ~IsExponent(expo) THEN 0
    ELSE IF Char(expo, 1) = "-" THEN 0 - ExponentValue(ExponentDigits(expo))
    ELSE ExponentValue(ExponentDigits(expo))

\* the literal with the integer part ip, the decimals fp and the exponent E
DecimalDigits(neg, ip, fp, E) ==
    IF Len(ip \o fp) = 0 \/ ~AllDigits(ip \o fp)
    THEN NaN
    ELSE DecimalValue(neg, StripZerosEnd(StripZeros(ip \o fp)),
                      Len(StripZeros(ip \o fp)) - Len(fp) + E)

\* the mantissa: digits with at most one point
Mantissa(neg, mant, E) ==
    LET dots == {i \in 1..Len(mant) : Char(mant, i) = "."}
    IN  IF dots = {} THEN DecimalDigits(neg, mant, "", E)
        ELSE IF Cardinality(dots) > 1 THEN NaN
        ELSE DecimalDigits(neg, SubSeq(mant, 1, (CHOOSE i \in dots : TRUE) - 1),
                           From(mant, (CHOOSE i \in dots : TRUE) + 1), E)

\* an unsigned literal: Infinity, or a mantissa and, after the first e or
\* E, an exponent
UnsignedLiteral(neg, body) ==
    LET marks == {i \in 1..Len(body) : Char(body, i) \in {"e", "E"}}
    IN  IF body = "Infinity" THEN (IF neg THEN NegInf ELSE Inf)
        ELSE IF marks = {} THEN Mantissa(neg, body, 0)
        ELSE IF ~IsExponent(From(body, (CHOOSE i \in marks : \A j \in marks : i <= j) + 1))
        THEN NaN
        ELSE Mantissa(neg,
                 SubSeq(body, 1, (CHOOSE i \in marks : \A j \in marks : i <= j) - 1),
                 SignedExponent(
                     From(body, (CHOOSE i \in marks : \A j \in marks : i <= j) + 1)))

\* the radix that the prefix of s announces, 0 if it has none
RadixOf(s) ==
    IF Len(s) < 2 \/ Char(s, 1) # "0" THEN 0
    ELSE IF Char(s, 2) \in {"x", "X"} THEN 16
    ELSE IF Char(s, 2) \in {"o", "O"} THEN 8
    ELSE IF Char(s, 2) \in {"b", "B"} THEN 2
    ELSE 0

\* the digits d after the prefix of the radix
RadixLiteral(d, radix) ==
    IF Len(d) > 0 /\ \A i \in 1..Len(d) : IsRadixDigit(Char(d, i), radix)
    THEN RadixValue(d, IF radix = 16 THEN 4 ELSE IF radix = 8 THEN 3 ELSE 1)
    ELSE NaN

\* the literal s, white space dropped
StrNumericLiteral(s) ==
    IF Len(s) = 0 THEN Num(0, 1)
    ELSE IF RadixOf(s) # 0 THEN RadixLiteral(From(s, 3), RadixOf(s))
    ELSE IF Char(s, 1) \in {"-", "+"}
    THEN UnsignedLiteral(Char(s, 1) = "-", From(s, 2))
    ELSE UnsignedLiteral(FALSE, s)

(***************************************************************************)
(* StringToNumber: what Number(s) yields for a string (StringToNumber of   *)
(* ECMAScript): white space around the literal is dropped; the empty       *)
(* string is 0; the literal is Infinity with an optional sign, a decimal   *)
(* literal (optional sign, digits with an optional point, or a point and   *)
(* digits, and an optional exponent), or 0x, 0o or 0b and digits of that   *)
(* radix without a sign. Anything else is NaN.                             *)
(***************************************************************************)
StringToNumber(s0) == StrNumericLiteral(trim(s0))

\* Number(v): the controller's coercion of the body's capacity. An array or
\* an object is converted by way of its string (v.s).
Number(v) ==
    CASE v.t = "undefined" -> NaN
      [] v.t = "null"      -> Num(0, 1)
      [] v.t = "boolean"   -> Num(v.n, 1)
      [] v.t = "number"    -> v
      [] v.t \in {"string", "array", "object"} -> StringToNumber(v.s)

\* Number.isInteger(x)
NumberIsInteger(x) ==
    /\ x.t = "number"
    /\ \/ x.k \in {"big", "negbig"}
       \/ x.k = "rat" /\ x.n % x.d = 0

\* x <= 0 (false for NaN)
LeqZero(x) ==
    \/ x.k = "rat" /\ x.n <= 0
    \/ x.k \in {"negbig", "negfrac", "neginf"}

\* the value of an integral number that fits the store's Int
FitsInt(x) ==
    /\ x.k = "rat"
    /\ x.n % x.d = 0
    /\ x.n \div x.d <= StoreIntMax
    /\ x.n \div x.d >= 0 - StoreIntMax - 1

IntValue(x) == x.n \div x.d

(***************************************************************************)
(* Date.prototype.toISOString for a time t in milliseconds since the epoch *)
(* (t below one minute).                                                   *)
(***************************************************************************)
Pad(n, w) ==
    LET s == NatToString(n)
    IN  SubSeq("000", 1, w - Len(s)) \o s

toISOString(t) ==
    "1970-01-01T00:00:" \o Pad(t \div 1000, 2) \o "." \o Pad(t % 1000, 3) \o "Z"

\* @default(cuid()): a generated id, from the generator's counter
Cuid(n) == "c" \o NatToString(n)

(***************************************************************************)
(* Results of calls: a call returns a value or throws an Error, and leaves *)
(* the database db = [store, clock, nextId] as it was or changed; calls is *)
(* the number of store calls (calls of prisma.space) made on the way.      *)
(***************************************************************************)
Return(v, db, n) ==
    [threw |-> FALSE, error |-> [isError |-> TRUE, message |-> ""],
     value |-> v, db |-> db, calls |-> n]
Throw(msg, db, n) ==
    [threw |-> TRUE, error |-> [isError |-> TRUE, message |-> msg],
     value |-> Null, db |-> db, calls |-> n]
IsNull(v) == "t" \in DOMAIN v /\ v.t = "null"

\* db.fault: what a call of the store throws while the store is failing;
\* the scope is "all" (no call succeeds) or "write" (reads still succeed)
NoFault ==
    [on |-> FALSE, scope |-> "all", error |-> [isError |-> TRUE, message |-> ""]]
Fault(scope, msg) ==
    [on |-> TRUE, scope |-> scope, error |-> [isError |-> TRUE, message |-> msg]]
Fails(db, kind) == db.fault.on /\ (db.fault.scope = "all" \/ kind = "write")
\* a store call that fails throws the store's error and changes nothing
Fail(db) ==
    [threw |-> TRUE, error |-> db.fault.error, value |-> Null, db |-> db,
     calls |-> 1]

\* messages of the usecases
MsgNameRequired == "name is required"
MsgCapacity == "capacity must be a positive integer"
MsgIdRequired == "id is required"
MsgNameEmpty == "name cannot be empty"
MsgNoFields == "no fields to update"
MsgSpaceNotFound == "space not found"
\* the TypeError of calling .trim on a name that has none
MsgTrimNotFunction == "input.name?.trim is not a function"
\* Prisma P2025 (update or delete of a record that does not exist)
MsgPrismaUpdateNotFound ==
    "Invalid prisma.space.update() invocation: An operation failed because it depends on one or more records that were required but not found. No record was found for an update."
MsgPrismaDeleteNotFound ==
    "Invalid prisma.space.delete() invocation: An operation failed because it depends on one or more records that were required but not found. No record was found for a delete."
\* Prisma's rejection of a number that does not fit the Int column
MsgPrismaIntRange ==
    "Unable to fit integer value into a 32-bit signed integer for field capacity."

(***************************************************************************)
(* The repository: pass-throughs to prisma.space (model Space).            *)
(* Of the store the model keeps what the schema states: ids come from      *)
(* cuid() and never repeat; a create stamps createdAt (now()) and          *)
(* updatedAt (@updatedAt) with the one time of the request, an update      *)
(* stamps updatedAt; capacity is an Int, so a value that is no 32-bit      *)
(* integer is rejected when the query is validated, before any row is      *)
(* looked up; update and delete of a missing row fail with P2025. The      *)
(* names sent are far shorter than the column of a String.                 *)
(***************************************************************************)
Found(id, db) == {r \in db.store : r.id = id}
Ids(records) == {r.id : r \in records}

\* prisma.space.create with an id derived from the number of records stored
repoCreateSpace_ReuseId(data, db) ==
    IF Fails(db, "write")
    THEN Fail(db)
    ELSE IF ~FitsInt(data.capacity)
    THEN Throw(MsgPrismaIntRange, db, 1)
    ELSE LET r == [id        |-> Cuid(Cardinality(db.store) + 1),
                   name      |-> data.name,
                   capacity  |-> IntValue(data.capacity),
                   createdAt |-> db.clock,
                   updatedAt |-> db.clock]
         IN  Return(r, [db EXCEPT !.store = @ \cup {r}, !.nextId = @ + 1], 1)

\* prisma.space.create leaving updatedAt at the epoch
repoCreateSpace_EpochUpdatedAt(data, db) ==
    IF Fails(db, "write")
    THEN Fail(db)
    ELSE IF ~FitsInt(data.capacity)
    THEN Throw(MsgPrismaIntRange, db, 1)
    ELSE LET r == [id        |-> Cuid(db.nextId),
                   name      |-> data.name,
                   capacity  |-> IntValue(data.capacity),
                   createdAt |-> db.clock,
                   updatedAt |-> 0]
         IN  Return(r, [db EXCEPT !.store = @ \cup {r}, !.nextId = @ + 1], 1)

\* prisma.space.create({ data }): id from cuid(), createdAt from now(),
\* updatedAt from @updatedAt, both the time of the request
repoCreateSpace(data, db) ==
    IF Fails(db, "write")
    THEN Fail(db)
    ELSE IF ~FitsInt(data.capacity)
    THEN Throw(MsgPrismaIntRange, db, 1)
    ELSE LET r == [id        |-> Cuid(db.nextId),
                   name      |-> data.name,
                   capacity  |-> IntValue(data.capacity),
                   createdAt |-> db.clock,
                   updatedAt |-> db.clock]
         IN  Return(r, [db EXCEPT !.store = @ \cup {r}, !.nextId = @ + 1], 1)

\* prisma.space.findUnique({ where: { id } }): the record or null
repoGetSpaceById(id, db) ==
    IF Fails(db, "read")
    THEN Fail(db)
    ELSE IF Found(id, db) = {}
    THEN Return(Null, db, 1)
    ELSE Return(CHOOSE r \in Found(id, db) : TRUE, db, 1)

\* prisma.space.update writing the whole row: a key absent from data is
\* written as the empty name or the capacity 0
repoUpdateSpace_WholeRow(id, data, db) ==
    IF Fails(db, "write")
    THEN Fail(db)
    ELSE IF data.capacity # Undefined /\ ~FitsInt(data.capacity)
    THEN Throw(MsgPrismaIntRange, db, 1)
    ELSE IF Found(id, db) = {}
    THEN Throw(MsgPrismaUpdateNotFound, db, 1)
    ELSE LET old == CHOOSE r \in Found(id, db) : TRUE
             new == [old EXCEPT
                       !.name = IF data.name = Undefined THEN "" ELSE data.name.s,
                       !.capacity = IF data.capacity = Undefined THEN 0
                                    ELSE IntValue(data.capacity),
                       !.updatedAt = db.clock]
         IN  Return(new, [db EXCEPT !.store = (@ \ Found(id, db)) \cup {new}], 1)

\* prisma.space.update stamping createdAt as well as updatedAt
repoUpdateSpace_TouchCreatedAt(id, data, db) ==
    IF Fails(db, "write")
    THEN Fail(db)
    ELSE IF data.capacity # Undefined /\ ~FitsInt(data.capacity)
    THEN Throw(MsgPrismaIntRange, db, 1)
    ELSE IF Found(id, db) = {}
    THEN Throw(MsgPrismaUpdateNotFound, db, 1)
    ELSE LET old == CHOOSE r \in Found(id, db) : TRUE
             new == [old EXCEPT
                       !.name = IF data.name = Undefined THEN @ ELSE data.name.s,
                       !.capacity = IF data.capacity = Undefined THEN @
                                    ELSE IntValue(data.capacity),
                       !.createdAt = db.clock,
                       !.updatedAt = db.clock]
         IN  Return(new, [db EXCEPT !.store = (@ \ Found(id, db)) \cup {new}], 1)

\* prisma.space.update({ where: { id }, data }): a key absent from data
\* (Undefined) is left as it is; @updatedAt is set to the time of the update
repoUpdateSpace(id, data, db) ==
    IF Fails(db, "write")
    THEN Fail(db)
    ELSE IF data.capacity # Undefined /\ ~FitsInt(data.capacity)
    THEN Throw(MsgPrismaIntRange, db, 1)
    ELSE IF Found(id, db) = {}
    THEN Throw(MsgPrismaUpdateNotFound, db, 1)
    ELSE LET old == CHOOSE r \in Found(id, db) : TRUE
             new == [old EXCEPT
                       !.name = IF data.name = Undefined THEN @ ELSE data.name.s,
                       !.capacity = IF data.capacity = Undefined THEN @
                                    ELSE IntValue(data.capacity),
                       !.updatedAt = db.clock]
         IN  Return(new, [db EXCEPT !.store = (@ \ Found(id, db)) \cup {new}], 1)

\* a delete that succeeds whether or not the record exists (deleteMany)
repoDeleteSpace_Idempotent(id, db) ==
    IF Fails(db, "write")
    THEN Fail(db)
    ELSE Return(Null, [db EXCEPT !.store = @ \ Found(id, db)], 1)

\* prisma.space.delete({ where: { id } })
repoDeleteSpace(id, db) ==
    IF Fails(db, "write")
    THEN Fail(db)
    ELSE IF Found(id, db) = {}
    THEN Throw(MsgPrismaDeleteNotFound, db, 1)
    ELSE Return(CHOOSE r \in Found(id, db) : TRUE,
                [db EXCEPT !.store = @ \ Found(id, db)], 1)

\* prisma.space.findMany ordering by createdAt ascending
repoListSpaces_Ascending(db) ==
    IF Fails(db, "read")
    THEN {Fail(db)}
    ELSE {Return(q, db, 1) : q \in
            {q \in [1..Cardinality(db.store) -> db.store] :
                /\ \A i, j \in DOMAIN q : i # j => q[i] # q[j]
                /\ \A i, j \in DOMAIN q :
                       i < j => q[i].createdAt <= q[j].createdAt}}

\* prisma.space.findMany({ orderBy: { createdAt: "desc" } }): the records in
\* an order the database may return (records of equal createdAt in any order)
repoListSpaces(db) ==
    IF Fails(db, "read")
    THEN {Fail(db)}
    ELSE {Return(q, db, 1) : q \in
            {q \in [1..Cardinality(db.store) -> db.store] :
                /\ \A i, j \in DOMAIN q : i # j => q[i] # q[j]
                /\ \A i, j \in DOMAIN q :
                       i < j => q[i].createdAt >= q[j].createdAt}}

(***************************************************************************)
(* The usecases.                                                           *)
(***************************************************************************)
toDTO(space) ==
    [id        |-> space.id,
     name      |-> space.name,
     capacity  |-> space.capacity,
     createdAt |-> toISOString(space.createdAt),
     updatedAt |-> toISOString(space.updatedAt)]

toDTO_update(space) ==
    [id        |-> space.id,
     name      |-> space.name,
     capacity  |-> space.capacity,
     createdAt |-> toISOString(space.createdAt),
     updatedAt |-> toISOString(space.updatedAt)]

toDTO_get(space) ==
    [id        |-> space.id,
     name      |-> space.name,
     capacity  |-> space.capacity,
     createdAt |-> toISOString(space.createdAt),
     updatedAt |-> toISOString(space.updatedAt)]

toDTO_list(space) ==
    [id        |-> space.id,
     name      |-> space.name,
     capacity  |-> space.capacity,
     createdAt |-> toISOString(space.createdAt),
     updatedAt |-> toISOString(space.updatedAt)]

\* createSpaceUsecase answering with the name as it was sent
createSpaceUsecase_EchoInput(input, db) ==
    IF input.name.t \in {"undefined", "null"}
    THEN Throw(MsgNameRequired, db, 0)
    ELSE IF input.name.t # "string"
    THEN Throw(MsgTrimNotFunction, db, 0)
    ELSE IF trim(input.name.s) = ""
    THEN Throw(MsgNameRequired, db, 0)
    ELSE IF ~NumberIsInteger(input.capacity) \/ LeqZero(input.capacity)
    THEN Throw(MsgCapacity, db, 0)
    ELSE LET r == repoCreateSpace([name     |-> trim(input.name.s),
                                   capacity |-> input.capacity], db)
         IN  IF r.threw THEN r
             ELSE Return(toDTO([r.value EXCEPT !.name = input.name.s]),
                         r.db, r.calls)

\* createSpaceUsecase testing the name without trimming it (!input.name)
createSpaceUsecase_NoTrim(input, db) ==
    IF input.name.t \in {"undefined", "null"}
    THEN Throw(MsgNameRequired, db, 0)
    ELSE IF input.name.t # "string"
    THEN Throw(MsgTrimNotFunction, db, 0)
    ELSE IF input.name.s = ""
    THEN Throw(MsgNameRequired, db, 0)
    ELSE IF ~NumberIsInteger(input.capacity) \/ LeqZero(input.capacity)
    THEN Throw(MsgCapacity, db, 0)
    ELSE LET r == repoCreateSpace([name     |-> trim(input.name.s),
                                   capacity |-> input.capacity], db)
         IN  IF r.threw THEN r ELSE Return(toDTO(r.value), r.db, r.calls)

\* !input.name?.trim(): undefined and null short-circuit to undefined; a value
\* that is no string has no trim method, and calling it throws a TypeError
createSpaceUsecase(input, db) ==
    IF input.name.t \in {"undefined", "null"}
    THEN Throw(MsgNameRequired, db, 0)
    ELSE IF input.name.t # "string"
    THEN Throw(MsgTrimNotFunction, db, 0)
    ELSE IF trim(input.name.s) = ""
    THEN Throw(MsgNameRequired, db, 0)
    ELSE IF ~NumberIsInteger(input.capacity) \/ LeqZero(input.capacity)
    THEN Throw(MsgCapacity, db, 0)
    ELSE LET r == repoCreateSpace([name     |-> trim(input.name.s),
                                   capacity |-> input.capacity], db)
         IN  IF r.threw THEN r ELSE Return(toDTO(r.value), r.db, r.calls)

\* updateSpaceUsecase storing the name as it was sent
updateSpaceUsecase_NoTrimStore(id, input, db) ==
    IF id = ""
    THEN Throw(MsgIdRequired, db, 0)
    ELSE IF input.name.t = "string" /\ trim(input.name.s) = ""
    THEN Throw(MsgNameEmpty, db, 0)
    ELSE IF input.capacity.t # "undefined"
            /\ (~NumberIsInteger(input.capacity) \/ LeqZero(input.capacity))
    THEN Throw(MsgCapacity, db, 0)
    ELSE LET data == [name     |-> IF input.name.t = "string"
                                   THEN Str(input.name.s) ELSE Undefined,
                      capacity |-> input.capacity]
         IN  IF data.name = Undefined /\ data.capacity = Undefined
             THEN Throw(MsgNoFields, db, 0)
             ELSE LET r == repoUpdateSpace(id, data, db)
                  IN  IF r.threw THEN r
                      ELSE Return(toDTO_update(r.value), r.db, r.calls)

\* updateSpaceUsecase without the check that a field is left to update
updateSpaceUsecase_NoFieldsCheck(id, input, db) ==
    IF id = ""
    THEN Throw(MsgIdRequired, db, 0)
    ELSE IF input.name.t = "string" /\ trim(input.name.s) = ""
    THEN Throw(MsgNameEmpty, db, 0)
    ELSE IF input.capacity.t # "undefined"
            /\ (~NumberIsInteger(input.capacity) \/ LeqZero(input.capacity))
    THEN Throw(MsgCapacity, db, 0)
    ELSE LET data == [name     |-> IF input.name.t = "string"
                                   THEN Str(trim(input.name.s)) ELSE Undefined,
                      capacity |-> input.capacity]
             r    == repoUpdateSpace(id, data, db)
         IN  IF r.threw THEN r
             ELSE Return(toDTO_update(r.value), r.db, r.calls)

\* updateSpaceUsecase without the check of the capacity
updateSpaceUsecase_NoCapacityCheck(id, input, db) ==
    IF id = ""
    THEN Throw(MsgIdRequired, db, 0)
    ELSE IF input.name.t = "string" /\ trim(input.name.s) = ""
    THEN Throw(MsgNameEmpty, db, 0)
    ELSE LET data == [name     |-> IF input.name.t = "string"
                                   THEN Str(trim(input.name.s)) ELSE Undefined,
                      capacity |-> input.capacity]
         IN  IF data.name = Undefined /\ data.capacity = Undefined
             THEN Throw(MsgNoFields, db, 0)
             ELSE LET r == repoUpdateSpace(id, data, db)
                  IN  IF r.threw THEN r
                      ELSE Return(toDTO_update(r.value), r.db, r.calls)

\* updateSpaceUsecase looking the record up before it updates it
updateSpaceUsecase_CheckFirst(id, input, db) ==
    IF id = ""
    THEN Throw(MsgIdRequired, db, 0)
    ELSE IF input.name.t = "string" /\ trim(input.name.s) = ""
    THEN Throw(MsgNameEmpty, db, 0)
    ELSE IF input.capacity.t # "undefined"
            /\ (~NumberIsInteger(input.capacity) \/ LeqZero(input.capacity))
    THEN Throw(MsgCapacity, db, 0)
    ELSE LET data == [name     |-> IF input.name.t = "string"
                                   THEN Str(trim(input.name.s)) ELSE Undefined,
                      capacity |-> input.capacity]
         IN  IF data.name = Undefined /\ data.capacity = Undefined
             THEN Throw(MsgNoFields, db, 0)
             ELSE LET g == repoGetSpaceById(id, db)
                      r == repoUpdateSpace(id, data, db)
                  IN  IF g.threw THEN g
                      ELSE IF IsNull(g.value)
                      THEN Throw(MsgSpaceNotFound, db, 1)
                      ELSE IF r.threw THEN [r EXCEPT !.calls = 2]
                      ELSE Return(toDTO_update(r.value), r.db, 2)

updateSpaceUsecase(id, input, db) ==
    IF id = ""
    THEN Throw(MsgIdRequired, db, 0)
    ELSE IF input.name.t = "string" /\ trim(input.name.s) = ""
    THEN Throw(MsgNameEmpty, db, 0)
    ELSE IF input.capacity.t # "undefined"
            /\ (~NumberIsInteger(input.capacity) \/ LeqZero(input.capacity))
    THEN Throw(MsgCapacity, db, 0)
    ELSE LET data == [name     |-> IF input.name.t = "string"
                                   THEN Str(trim(input.name.s)) ELSE Undefined,
                      capacity |-> input.capacity]
         IN  IF data.name = Undefined /\ data.capacity = Undefined
             THEN Throw(MsgNoFields, db, 0)
             ELSE LET r == repoUpdateSpace(id, data, db)
                  IN  IF r.threw THEN r
                      ELSE Return(toDTO_update(r.value), r.db, r.calls)

getSpaceUsecase(id, db) ==
    IF id = ""
    THEN Throw(MsgIdRequired, db, 0)
    ELSE LET r == repoGetSpaceById(id, db)
         IN  IF r.threw THEN r
             ELSE IF IsNull(r.value) THEN Throw(MsgSpaceNotFound, r.db, r.calls)
             ELSE Return(toDTO_get(r.value), r.db, r.calls)

deleteSpaceUsecase(id, db) ==
    IF id = ""
    THEN Throw(MsgIdRequired, db, 0)
    ELSE LET r == repoDeleteSpace(id, db)
         IN  IF r.threw THEN r ELSE Return(Undefined, r.db, r.calls)

\* one result for each order the store may return
listSpacesUsecase(db) ==
    {IF r.threw THEN r
     ELSE Return([i \in DOMAIN r.value |-> toDTO_list(r.value[i])],
                 r.db, r.calls) :
        r \in repoListSpaces(db)}

(***************************************************************************)
(* The controller. A response is [status, kind, error, items]: the body is *)
(* one DTO (kind "dto", items[1]), a sequence of DTOs (kind "list"),       *)
(* { error: message } (kind "error") or empty (kind "empty").              *)
(***************************************************************************)
Response(status, kind, error, items) ==
    [status |-> status, kind |-> kind, error |-> error, items |-> items]

\* handleError testing "required" before "not found"
handleError_RequiredFirst(err) ==
    LET msg == IF err.isError THEN err.message ELSE "unknown error"
    IN  IF \/ Includes(msg, "required")
           \/ Includes(msg, "must")
           \/ Includes(msg, "cannot")
           \/ Includes(msg, "no fields")
        THEN Response(400, "error", msg, <<>>)
        ELSE IF Includes(msg, "not found")
        THEN Response(404, "error", msg, <<>>)
        ELSE Response(500, "error", msg, <<>>)

\* handleError reading the message of any thrown value
handleError_AnyMessage(err) ==
    LET msg == err.message
    IN  IF Includes(msg, "not found")
        THEN Response(404, "error", msg, <<>>)
        ELSE IF \/ Includes(msg, "required")
                \/ Includes(msg, "must")
                \/ Includes(msg, "cannot")
                \/ Includes(msg, "no fields")
        THEN Response(400, "error", msg, <<>>)
        ELSE Response(500, "error", msg, <<>>)

handleError(err) ==
    LET msg == IF err.isError THEN err.message ELSE "unknown error"
    IN  IF Includes(msg, "not found")
        THEN Response(404, "error", msg, <<>>)
        ELSE IF \/ Includes(msg, "required")
                \/ Includes(msg, "must")
                \/ Includes(msg, "cannot")
                \/ Includes(msg, "no fields")
        THEN Response(400, "error", msg, <<>>)
        ELSE Response(500, "error", msg, <<>>)

\* each handler yields the response it sends, the database it leaves and the
\* number of store calls it made; req.params.id of a "/:id" route is always
\* a non-empty string, so the handlers' "invalid id" answer is never sent
\* createSpace without its try/catch: what the usecase throws escapes the
\* handler and no response is sent
createSpace_NoCatch(body, db) ==
    LET r == createSpaceUsecase([name     |-> body.name,
                                 capacity |-> Number(body.capacity)], db)
    IN  [resp |-> IF r.threw THEN Response(0, "none", "", <<>>)
                  ELSE Response(201, "dto", "", <<r.value>>),
         db   |-> r.db, calls |-> r.calls]

createSpace(body, db) ==
    LET r == createSpaceUsecase([name     |-> body.name,
                                 capacity |-> Number(body.capacity)], db)
    IN  [resp |-> IF r.threw THEN handleError(r.error)
                  ELSE Response(201, "dto", "", <<r.value>>),
         db   |-> r.db, calls |-> r.calls]

getSpace(id, db) ==
    LET r == getSpaceUsecase(id, db)
    IN  [resp |-> IF r.threw THEN handleError(r.error)
                  ELSE Response(200, "dto", "", <<r.value>>),
         db   |-> r.db, calls |-> r.calls]

listSpaces(db) ==
    {[resp |-> IF r.threw THEN handleError(r.error)
               ELSE Response(200, "list", "", r.value),
      db   |-> r.db, calls |-> r.calls] : r \in listSpacesUsecase(db)}

updateSpace(id, body, db) ==
    LET r == updateSpaceUsecase(id,
                 [name     |-> body.name,
                  capacity |-> IF body.capacity.t = "undefined" THEN Undefined
                               ELSE Number(body.capacity)], db)
    IN  [resp |-> IF r.threw THEN handleError(r.error)
                  ELSE Response(200, "dto", "", <<r.value>>),
         db   |-> r.db, calls |-> r.calls]

deleteSpace(id, db) ==
    LET r == deleteSpaceUsecase(id, db)
    IN  [resp |-> IF r.threw THEN handleError(r.error)
                  ELSE Response(204, "empty", "", <<>>),
         db   |-> r.db, calls |-> r.calls]

(***************************************************************************)
(* The application (app.ts): an HTTP request [method, path, body] is given *)
(* to the first route that matches; an HTTP response is [status, body],    *)
(* the body a JSON object written as a record. Paths carry no query string *)
(* and no percent-encoding, and a body is a parsed JSON object. Routing is *)
(* that of Express with its defaults: a route matches whatever the case of *)
(* the path and also with one trailing slash; a GET route answers HEAD as  *)
(* well, with the same status and no body; cors() answers every OPTIONS    *)
(* request itself with 204.                                                *)
(***************************************************************************)
HttpRequest(method, path, body) ==
    [method |-> method, path |-> path, body |-> body]
HttpResponse(status, body) == [status |-> status, body |-> body]

StartsWith(s, prefix) ==
    Len(s) >= Len(prefix) /\ SubSeq(s, 1, Len(prefix)) = prefix

\* String.prototype.toLowerCase for the letters A to Z
UpperToLower ==
    [c \in {"A", "B", "C", "D", "E", "F", "G", "H", "I", "J", "K", "L", "M",
            "N", "O", "P", "Q", "R", "S", "T", "U", "V", "W", "X", "Y", "Z"} |->
        LET i == CHOOSE i \in 1..26 : c = SubSeq("ABCDEFGHIJKLMNOPQRSTUVWXYZ", i, i)
        IN  SubSeq("abcdefghijklmnopqrstuvwxyz", i, i)]

LowerCase(c) == IF c \in DOMAIN UpperToLower THEN UpperToLower[c] ELSE c

\* the first n characters of the path are the route's, in any case
MatchesIgnoringCase(route, path, n) ==
    /\ Len(path) >= n
    /\ Len(route) = n
    /\ \A i \in 1..n : LowerCase(SubSeq(path, i, i)) = SubSeq(route, i, i)

\* app.get(route, ...): the path is the route, or the route and "/", in
\* any case
RouteMatches(route, path) ==
    \/ Len(path) = Len(route) /\ MatchesIgnoringCase(route, path, Len(route))
    \/ /\ route # "/"
       /\ Len(path) = Len(route) + 1
       /\ MatchesIgnoringCase(route \o "/", path, Len(route) + 1)

\* app.use(mount, router): the path is the mount or lies below it
Mounted(mount, path) ==
    \/ Len(path) = Len(mount) /\ MatchesIgnoringCase(mount, path, Len(mount))
    \/ MatchesIgnoringCase(mount \o "/", path, Len(mount) + 1)

\* a GET route serves GET and HEAD
IsGet(method) == method \in {"GET", "HEAD"}

\* the response to a HEAD request: the status of the response to GET, and
\* no body
Headed(method, response) ==
    IF method = "HEAD"
    THEN HttpResponse(response.status, [empty |-> TRUE])
    ELSE response

\* app.get("/api/health"): 200 if the store answers SELECT 1, else 500
health(db) ==
    IF Fails(db, "read")
    THEN HttpResponse(500, [ok |-> FALSE, message |-> "Prisma connection failed"])
    ELSE HttpResponse(200, [ok |-> TRUE, message |-> "Prisma is connected to MySQL"])

\* the router of routes/user answers below /api/users (no such request is
\* sent here; the response only records that the router was given it)
userRouter(r, db) == HttpResponse(0, [router |-> "userRouter"])

\* the middleware and routes of app.ts in the order they are registered
app(r, db) ==
    IF r.method = "OPTIONS"
    THEN HttpResponse(204, [empty |-> TRUE])
    ELSE Headed(r.method,
             IF IsGet(r.method) /\ RouteMatches("/", r.path)
             THEN HttpResponse(200, [status  |-> "active",
                                     message |-> "Backend is running"])
             ELSE IF IsGet(r.method) /\ RouteMatches("/api/health", r.path)
             THEN health(db)
             ELSE IF Mounted("/api/users", r.path)
             THEN userRouter(r, db)
             ELSE HttpResponse(404, [message |-> "Not found"]))

\* spaceRouter (routes.ts): the outcomes of the handler that the method and
\* the path below the mount select; none if no route of the router matches.
\* "/:id" takes one non-empty segment, with or without a slash after it.
spaceRouter(method, sub, body, db) ==
    IF sub \in {"", "/"}
    THEN CASE method = "POST" -> {createSpace(body, db)}
           [] IsGet(method)   -> listSpaces(db)
           [] OTHER           -> {}
    ELSE LET seg == SubSeq(sub, 2, Len(sub))
             id  == IF Len(seg) > 1 /\ SubSeq(seg, Len(seg), Len(seg)) = "/"
                    THEN SubSeq(seg, 1, Len(seg) - 1)
                    ELSE seg
         IN  IF ~StartsWith(sub, "/") \/ Includes(id, "/")
             THEN {}
             ELSE CASE IsGet(method)     -> {getSpace(id, db)}
                    [] method = "PATCH"  -> {updateSpace(id, body, db)}
                    [] method = "DELETE" -> {deleteSpace(id, db)}
                    [] OTHER             -> {}

\* res.status(..).json(..) / res.status(204).send() of a handler's response
Send(r) ==
    HttpResponse(r.status,
        CASE r.kind = "dto"   -> r.items[1]
          [] r.kind = "list"  -> [items |-> r.items]
          [] r.kind = "error" -> [error |-> r.error]
          [] OTHER            -> [empty |-> TRUE])

(***************************************************************************)
(* The requests the model sends.                                           *)
(***************************************************************************)
NameInputs ==
    {Undefined, Num(123, 1), Str(""), Str(" \r"), Str(" a "), Str("b")}

CapacityInputs ==
    {Undefined, Num(0, 1), Num(0 - 1, 1), Num(1, 1), Num(3, 2),
     Big, Str("2"), Str("abc"), Str("0x2"), Bool(TRUE)}

Body(name, capacity) == [name |-> name, capacity |-> capacity]

\* POST bodies: every name with a present, an absent and a rejected capacity,
\* and every capacity with a present and an absent name
CreateBodies ==
    {b \in [name : NameInputs, capacity : CapacityInputs] :
        \/ b.name \in {Undefined, Str(" a ")}
        \/ b.capacity \in {Undefined, Num(1, 1), Num(0 - 1, 1)}}

\* PATCH bodies: no field, one field (each name, each capacity), both fields
\* (accepted, and each rejected beside the other)
UpdateBodies ==
    {Body(n, Undefined) : n \in NameInputs}
    \cup {Body(Undefined, c) : c \in CapacityInputs}
    \cup {Body(Str(" a "), Num(1, 1)), Body(Str("b"), Str("2")),
          Body(Str(" \r"), Num(0 - 1, 1)), Body(Str(" \r"), Num(1, 1)),
          Body(Str("b"), Num(0, 1)), Body(Num(123, 1), Num(1, 1))}

NoBody == [name |-> Undefined, capacity |-> Undefined]

\* the :id path parameter: a generated id, or one that no record ever has
IdInputs == {Cuid(n) : n \in 1..MaxSpaces} \cup {"nope"}

Request(op, id, body) == [op |-> op, id |-> id, body |-> body]

DB == [store |-> store, clock |-> clock, nextId |-> nextId, fault |-> fault]

NoRequest == Request("none", "", NoBody)
NoResponse == Response(0, "none", "", <<>>)
NoSnapshot == [store |-> {}, clock |-> 0, nextId |-> 1, fault |-> NoFault]
NoListed == [valid |-> FALSE, items |-> <<>>]
\* the requests being handled at once, one per connection
Procs == {1, 2}
NoFlight ==
    [state |-> "none", req |-> NoRequest, resp |-> NoResponse, calls |-> 0,
     found |-> FALSE, overlapped |-> FALSE]
\* the query cache of the frontend (the entry of the key ["spaces"]) and
\* what the page saw last
NoCache == [has |-> FALSE, invalidated |-> FALSE, data |-> <<>>]
NoView ==
    [op |-> "none", ok |-> TRUE, refetched |-> FALSE, had |-> FALSE,
     wasInvalidated |-> FALSE, hadLen |-> 0, kept |-> TRUE]
NoExchange ==
    [req  |-> HttpRequest("", "", NoBody), resp |-> HttpResponse(0, [none |-> TRUE]),
     db   |-> NoSnapshot]

(***************************************************************************)
(* The frontend. The services call the API through an axios instance whose *)
(* base URL is "/api"; the dev server forwards "/api" to the backend       *)
(* (vite.config.ts), so a call is a request to the application of app.ts,  *)
(* and its promise resolves with the body of a 2xx response and rejects    *)
(* otherwise. app.ts mounts no router on "/api/spaces": the calls of the   *)
(* space service are answered by its catch-all. A settled call is          *)
(* [ok, status, data, db]: data is the list or record a resolved call      *)
(* returns, db the database after the backend handled the request. The     *)
(* hooks wrap the services in a query of the key ["spaces"] and in         *)
(* mutations; a cache entry is [has, invalidated, data].                   *)
(***************************************************************************)
ENDPOINT == "/spaces"

\* api.get / post / patch / delete: the response of the backend
api(method, path, body, db) ==
    app(HttpRequest(method, "/api" \o path, body), db)

\* const { data } = await api...: the promise of the call. data is the body
\* of the response: the sequence of a JSON array, the record of a JSON
\* object, nothing for an empty body and for a call that rejected
Resolve(response, db) ==
    [ok     |-> response.status >= 200 /\ response.status < 300,
     status |-> response.status,
     data   |-> IF response.status < 200 \/ response.status >= 300
                THEN <<>>
                ELSE IF "items" \in DOMAIN response.body
                THEN response.body.items
                ELSE IF "empty" \in DOMAIN response.body
                THEN <<>>
                ELSE response.body,
     db     |-> db]

fetchSpaces(db) == {Resolve(api("GET", ENDPOINT, NoBody, db), db)}
fetchSpaceById(id, db) ==
    Resolve(api("GET", ENDPOINT \o "/" \o id, NoBody, db), db)
serviceCreateSpace(input, db) == Resolve(api("POST", ENDPOINT, input, db), db)
serviceUpdateSpace(id, input, db) ==
    Resolve(api("PATCH", ENDPOINT \o "/" \o id, input, db), db)
serviceDeleteSpace(id, db) ==
    Resolve(api("DELETE", ENDPOINT \o "/" \o id, NoBody, db), db)

\* fetchHealth: api.get("/health")
fetchHealth(db) == Resolve(api("GET", "/health", NoBody, db), db)

\* queryClient.invalidateQueries({ queryKey: ["spaces"] })
invalidateQueries(c) == [c EXCEPT !.invalidated = c.has]

\* a mutation whose mutation function has settled with result: onSuccess
\* runs if it resolved
useMutation(result, c) ==
    [ok    |-> result.ok,
     cache |-> IF result.ok THEN invalidateQueries(c) ELSE c]

\* useQuery({ queryKey: ["spaces"], queryFn }): a read is served from the
\* cache when it holds a list that was not invalidated; else the query
\* function is called
IsStale(c) == ~c.has \/ c.invalidated

\* the read when the query function has settled with result f
useQuery(f, c) ==
    [ok |-> f.ok, refetched |-> TRUE, data |-> f.data,
     cache |-> IF f.ok
               THEN [has |-> TRUE, invalidated |-> FALSE, data |-> f.data]
               ELSE c]

useSpaces(c, db) ==
    IF ~IsStale(c)
    THEN {[ok |-> TRUE, refetched |-> FALSE, data |-> c.data, cache |-> c]}
    ELSE {useQuery(f, c) : f \in fetchSpaces(db)}

useCreateSpace(input, c, db) == useMutation(serviceCreateSpace(input, db), c)
useUpdateSpace(id, input, c, db) ==
    useMutation(serviceUpdateSpace(id, input, db), c)
useDeleteSpace(id, c, db) == useMutation(serviceDeleteSpace(id, db), c)

(***************************************************************************)
(* Queries and their retries. The query client is made with no options    *)
(* (new QueryClient()), so a query that names no retry count has the       *)
(* default of the library, 3; useHealth names 1. A query is                *)
(* [status, calls, failureCount]: calls counts the calls of its queryFn    *)
(* since it was mounted. A failed call is retried while fewer than retry   *)
(* calls have failed before it.                                            *)
(***************************************************************************)
DefaultRetry == 3
HealthRetry == 1

QueryKeys == {"health", "spaces"}

retry(key) == IF key = "health" THEN HealthRetry ELSE DefaultRetry

\* the query function of the query: fetchHealth or fetchSpaces
queryFn(key) == IF key = "health" THEN "health" ELSE "list"

NoQuery == [status |-> "idle", calls |-> 0, failureCount |-> 0]
NoQueries == [k \in QueryKeys |-> NoQuery]

\* the query q after a call of its query function, with retry count n
Fetched(q, ok, n) ==
    IF ok
    THEN [status |-> "success", calls |-> q.calls + 1, failureCount |-> 0]
    ELSE [status       |-> IF q.failureCount < n THEN "loading" ELSE "error",
          calls        |-> q.calls + 1,
          failureCount |-> q.failureCount + 1]

\* a call of one of the five functions of the space service: sent is the
\* number of requests it made, ok whether its promise resolved, status the
\* status of the response
NoService == [op |-> "none", sent |-> 0, ok |-> TRUE, status |-> 0]

(***************************************************************************)
(* The user service (services/userService.ts) over the table User of the   *)
(* store: id autoincrement, email unique, name optional. A user is         *)
(* [id, email, name]; the input of createUser is [email, name], its name   *)
(* Undefined when the caller gave none. A store call yields                *)
(* [threw, message, value, users], value the set of the user returned. A   *)
(* call of createUser is [phase, data, existing, threw, message, value]:   *)
(* phase is the await it is at ("lookup" until the store has answered      *)
(* findUnique and "found" until the call is resumed, "create" until the    *)
(* store has answered create and "created" until the call is resumed) or   *)
(* "settled"; existing is what findUnique found; threw, message and value  *)
(* are its outcome.                                                        *)
(***************************************************************************)
MsgEmailExists == "Email already exists"
MsgUniqueEmail == "Unique constraint failed on the constraint: User_email_key"

UserInput(email, name) == [email |-> email, name |-> name]

\* prisma.user.findUnique({ where: { email } }): the user found, if any
userFindUnique(us, email) == {u \in us : u.email = email}

\* the id the store gives the next user
userNextId(us) ==
    IF us = {} THEN 1
    ELSE 1 + (CHOOSE n \in {u.id : u \in us} : \A u \in us : u.id <= n)

\* prisma.user.create({ data }): the store rejects a second user of an email
userCreate(us, data) ==
    IF \E u \in us : u.email = data.email
    THEN [threw |-> TRUE, message |-> MsgUniqueEmail, value |-> {},
          users |-> us]
    ELSE LET u == [id    |-> userNextId(us),
                   email |-> data.email,
                   name  |-> IF data.name = Undefined THEN Null ELSE data.name]
         IN  [threw |-> FALSE, message |-> "", value |-> {u},
              users |-> us \cup {u}]

NoUsers == {}
NoUserCall ==
    [phase |-> "none", data |-> UserInput("", Undefined), existing |-> {},
     threw |-> FALSE, message |-> "", value |-> {}]

\* the calls of createUser in progress at once
UserProcs == {1, 2}

NoUserCalls == [p \in UserProcs |-> NoUserCall]

\* userService.createUser up to await prisma.user.findUnique
createUser(data) == [NoUserCall EXCEPT !.phase = "lookup", !.data = data]

\* createUser resumed with what findUnique found: it throws, or calls
\* prisma.user.create
createUserFound(c) ==
    IF c.existing # {}
    THEN [c EXCEPT !.phase = "settled", !.threw = TRUE,
                   !.message = MsgEmailExists]
    ELSE [c EXCEPT !.phase = "create"]

\* createUser returns the promise of prisma.user.create: it settles as the
\* store call did
createUserCreated(c, out) ==
    [c EXCEPT !.phase = "created", !.threw = out.threw,
              !.message = out.message, !.value = out.value]

(***************************************************************************)
(* The form of the spaces page (SpacesPage): showForm, editingSpace (the   *)
(* set of the record being edited, empty in create mode) and formData      *)
(* (name, capacity). last is what the page did last: the event, and for a  *)
(* submit that settled the form as it was then, the input sent, whether    *)
(* the mutation resolved and the status of the response.                   *)
(***************************************************************************)
NoEvent ==
    [event |-> "none", editing |-> {}, name |-> "", capacity |-> 0,
     input |-> NoBody, ok |-> TRUE, status |-> 0]

NoForm ==
    [show |-> FALSE, editing |-> {}, name |-> "", capacity |-> 0,
     last |-> NoEvent]

Event(e) == [NoEvent EXCEPT !.event = e]

\* handleCreate
handleCreate(f) ==
    [show |-> TRUE, editing |-> {}, name |-> "", capacity |-> 0,
     last |-> Event("create")]

\* handleEdit(space)
handleEdit(f, space) ==
    [show |-> TRUE, editing |-> {space}, name |-> space.name,
     capacity |-> space.capacity, last |-> Event("edit")]

\* onChange of the inputs: setFormData
setFormData(f, name, capacity) ==
    [f EXCEPT !.name = name, !.capacity = capacity, !.last = Event("change")]

\* the cancel button: setShowForm(false)
cancel(f) == [f EXCEPT !.show = FALSE, !.last = Event("cancel")]

\* the browser lets a form be submitted whose name is filled in (required)
\* and whose capacity is at least 1 (min="1")
FormIsValid(f) == f.name # "" /\ f.capacity >= 1

\* the input of the update: the fields of formData that differ from
\* editingSpace
updateInput(f, space) ==
    Body(IF f.name # space.name THEN Str(f.name) ELSE Undefined,
         IF f.capacity # space.capacity THEN Num(f.capacity, 1) ELSE Undefined)

\* handleSubmit after mutateAsync settled: a rejection leaves the handler at
\* its await, so the three setters run only when the mutation resolved
handleSubmit(f, input, ok, status) ==
    LET ev == [event |-> "submit", editing |-> f.editing, name |-> f.name,
               capacity |-> f.capacity, input |-> input, ok |-> ok,
               status |-> status]
    IN  IF ok
        THEN [show |-> FALSE, editing |-> {}, name |-> "", capacity |-> 0,
              last |-> ev]
        ELSE [f EXCEPT !.last = ev]

(***************************************************************************)
(* The process of server.ts. startServer() runs at load up to its first    *)
(* await and the two signal handlers are registered, so the process starts *)
(* waiting for $connect. phase is the await the start-up is at ("connect", *)
(* "query", or "returned" when connectDatabase has returned isConnected    *)
(* and startServer is not yet resumed), code the exit code (none while the *)
(* process lives), handlers the signal handlers waiting for $disconnect,   *)
(* and log what the process did, in order.                                 *)
(***************************************************************************)
ServerSignals == {"SIGINT", "SIGTERM"}

NoServer ==
    [phase |-> "connect", isConnected |-> FALSE, code |-> {},
     handlers |-> <<>>, log |-> <<>>]

Did(s, what) == [s EXCEPT !.log = Append(@, what)]

\* process.exit(code)
exit(s, code) ==
    [Did(s, IF code = 0 THEN "exit 0" ELSE "exit 1")
        EXCEPT !.phase = "exited", !.code = {code}]

\* startServer after connectDatabase returned
startServer(s, isConnected) ==
    IF ~isConnected
    THEN exit(s, 1)
    ELSE [Did(s, "listen") EXCEPT !.phase = "listening"]

\* connectDatabase returns to the await of startServer
returned(s, isConnected) ==
    [s EXCEPT !.phase = "returned", !.isConnected = isConnected]

\* connectDatabase when $connect settled: on success the test query is sent,
\* a rejection is caught and false returned
connectSettled(s, ok) ==
    IF ok
    THEN [Did(s, "connected") EXCEPT !.phase = "query"]
    ELSE returned(Did(s, "connection failed"), FALSE)

\* connectDatabase when the test query settled
querySettled(s, ok) ==
    IF ok
    THEN returned(Did(s, "query test passed"), TRUE)
    ELSE returned(Did(s, "connection failed"), FALSE)

\* the handler of SIGINT or SIGTERM up to its await of $disconnect
onSignal(s, sig) == [Did(s, sig) EXCEPT !.handlers = Append(@, sig)]

\* the first waiting handler when $disconnect settled: it exits with code 0;
\* a rejection is handled nowhere, and the run time (node 20 and 22) ends the
\* process with code 1
disconnectSettled(s, ok) ==
    IF ok
    THEN exit([Did(s, "disconnected") EXCEPT !.handlers = Tail(@)], 0)
    ELSE exit([Did(s, "disconnect failed") EXCEPT !.handlers = Tail(@)], 1)

(***************************************************************************)
(* State: store is the Space table, clock the time, nextId the counter of  *)
(* cuid(). pc is "idle" (no request is followed), "await" or "done": the   *)
(* handler of the request req has made its store call and waits for the    *)
(* reply ("await"), or has sent its response ("done"); resp is that        *)
(* response, calls the number of store calls the handler made and before   *)
(* the database it found. While the handler waits, the process handles     *)
(* other requests: their store calls are applied, and time passes; overlap *)
(* counts those that changed the stored records.                           *)
(* History: deleted holds the ids whose delete was answered 204; fresh     *)
(* holds the DTOs create returned for the records that no update or delete *)
(* has been applied to since; listed holds the sequence the first list     *)
(* returned since the last create, update or delete that was applied (it   *)
(* is kept by the specification ListSpec only).                            *)
(***************************************************************************)
Init ==
    /\ store = {}
    /\ clock = 0
    /\ nextId = 1
    /\ pc = "idle"
    /\ req = NoRequest
    /\ resp = NoResponse
    /\ calls = 0
    /\ overlap = 0
    /\ before = NoSnapshot
    /\ deleted = {}
    /\ fresh = {}
    /\ listed = NoListed
    /\ fault = NoFault
    /\ http = NoExchange
    /\ thrown = NoFault.error
    /\ classified = NoResponse
    /\ inflight = [p \in Procs |-> NoFlight]
    /\ last = 0
    /\ cache = NoCache
    /\ view = NoView
    /\ queries = NoQueries
    /\ svc = NoService
    /\ users = NoUsers
    /\ ures = NoUserCalls
    /\ form = NoForm
    /\ server = NoServer
    /\ pending = EmptyBag

\* time passes
Tick ==
    /\ pc \in {"idle", "await"}
    /\ clock < MaxClock
    /\ clock' = clock + 1
    /\ UNCHANGED <<store, nextId, pc, req, resp, calls, overlap, before, deleted, fresh>>

\* what every handler does: the outcome out of its operation leaves the
\* database out.db. The handler of the request that is followed (req)
\* answers at once if it made no store call (its usecase threw before);
\* if it made one, it yields at its await and answers when Reply resumes
\* it. Of a request handled while that handler waits, the effect on the
\* database is kept, not the response; overlap counts those that changed
\* the stored records.
Answer(r, out) ==
    /\ store' = out.db.store
    /\ nextId' = out.db.nextId
    /\ UNCHANGED clock
    /\ IF pc = "idle"
       THEN /\ pc' = IF out.calls > 0 THEN "await" ELSE "done"
            /\ req' = r
            /\ resp' = out.resp
            /\ calls' = out.calls
            /\ before' = DB
            /\ UNCHANGED overlap
       ELSE /\ out.db.store # store => overlap < MaxOverlap
            /\ overlap' = IF out.db.store # store THEN overlap + 1 ELSE overlap
            /\ UNCHANGED <<pc, req, resp, calls, before>>

\* POST /spaces
CreateSpace(body) ==
    /\ pc \in {"idle", "await"}
    /\ nextId <= MaxSpaces
    /\ \E out \in {createSpace(body, DB)} :
           /\ Answer(Request("create", "", body), out)
           /\ fresh' = IF out.resp.status = 201
                       THEN fresh \cup {out.resp.items[1]} ELSE fresh
    /\ UNCHANGED deleted

\* GET /spaces/:id
GetSpace(id) ==
    /\ pc \in {"idle", "await"}
    /\ \E out \in {getSpace(id, DB)} : Answer(Request("get", id, NoBody), out)
    /\ UNCHANGED <<deleted, fresh>>

\* GET /spaces
ListSpaces ==
    /\ pc \in {"idle", "await"}
    /\ \E out \in listSpaces(DB) : Answer(Request("list", "", NoBody), out)
    /\ UNCHANGED <<deleted, fresh>>

\* PATCH /spaces/:id
UpdateSpace(id, body) ==
    /\ pc \in {"idle", "await"}
    /\ \E out \in {updateSpace(id, body, DB)} :
           /\ Answer(Request("update", id, body), out)
           /\ fresh' = IF out.resp.status = 200
                       THEN {d \in fresh : d.id # id} ELSE fresh
    /\ UNCHANGED deleted

\* DELETE /spaces/:id
DeleteSpace(id) ==
    /\ pc \in {"idle", "await"}
    /\ \E out \in {deleteSpace(id, DB)} :
           /\ Answer(Request("delete", id, NoBody), out)
           /\ fresh' = IF out.resp.status = 204
                       THEN {d \in fresh : d.id # id} ELSE fresh
           /\ deleted' = IF out.resp.status = 204
                         THEN deleted \cup {id} ELSE deleted

\* the store's reply resumes the handler of req, which sends resp
Reply ==
    /\ pc = "await"
    /\ pc' = "done"
    /\ UNCHANGED <<store, clock, nextId, req, resp, calls, overlap, before, deleted,
                   fresh>>

\* the response has been delivered; the next request is followed
Retire ==
    /\ pc = "done"
    /\ pc' = "idle"
    /\ req' = NoRequest
    /\ resp' = NoResponse
    /\ calls' = 0
    /\ overlap' = 0
    /\ before' = NoSnapshot
    /\ UNCHANGED <<store, clock, nextId, deleted, fresh>>

\* what the handlers of the space feature leave alone
others ==
    <<listed, fault, http, thrown, classified, inflight, last, cache, view, queries, svc, users, ures, form, server, pending>>

\* the requests handled while the handler of req waits for the store
MeanwhileCreateBodies == {Body(Str("b"), Num(1, 1))}
MeanwhileUpdateBodies == {Body(Str("b"), Str("2"))}

Next ==
    \/ Tick /\ UNCHANGED others
    \/ \E body \in IF pc = "idle" THEN CreateBodies ELSE MeanwhileCreateBodies :
           CreateSpace(body) /\ UNCHANGED others
    \/ \E id \in IdInputs : GetSpace(id) /\ UNCHANGED others
    \/ ListSpaces /\ UNCHANGED others
    \/ \E id \in IdInputs :
           \E body \in IF pc = "idle" THEN UpdateBodies ELSE MeanwhileUpdateBodies :
               UpdateSpace(id, body) /\ UNCHANGED others
    \/ \E id \in IdInputs : DeleteSpace(id) /\ UNCHANGED others
    \/ Reply /\ UNCHANGED others
    \/ Retire /\ UNCHANGED others

Spec == Init /\ [][Next]_vars

(***************************************************************************)
(* ListSpec: the same handlers with few request bodies, keeping in listed  *)
(* what the first list answered since the last write that was applied.     *)
(***************************************************************************)
ListCreateBodies ==
    {Body(Str(" a "), Num(1, 1)), Body(Str("b"), Str("2")),
     Body(Str("  "), Num(1, 1))}

ListUpdateBodies ==
    {Body(Str("b"), Undefined), Body(Undefined, Num(3, 2)), NoBody}

\* a write that was applied ends the run of lists; the list of the request
\* that is followed is remembered if it is the first of its run
Remember ==
    listed' =
        IF store' # store
        THEN NoListed
        ELSE IF pc = "idle" /\ req'.op = "list" /\ ~listed.valid
        THEN [valid |-> TRUE, items |-> resp'.items]
        ELSE listed

listOthers ==
    <<fault, http, thrown, classified, inflight, last, cache, view, queries, svc, users, ures, form, server, pending>>

ListNext ==
    \/ Tick /\ Remember /\ UNCHANGED listOthers
    \/ \E body \in ListCreateBodies : CreateSpace(body) /\ Remember /\ UNCHANGED listOthers
    \/ \E id \in IdInputs : GetSpace(id) /\ Remember /\ UNCHANGED listOthers
    \/ ListSpaces /\ Remember /\ UNCHANGED listOthers
    \/ \E id \in IdInputs, body \in ListUpdateBodies :
           UpdateSpace(id, body) /\ Remember /\ UNCHANGED listOthers
    \/ \E id \in IdInputs : DeleteSpace(id) /\ Remember /\ UNCHANGED listOthers
    \/ Reply /\ Remember /\ UNCHANGED listOthers
    \/ Retire /\ Remember /\ UNCHANGED listOthers

ListSpec == Init /\ [][ListNext]_vars

(***************************************************************************)
(* AppSpec: requests sent to the application. A request arrives           *)
(* (AppRequest): cors() answers an OPTIONS request at once; express.json() *)
(* reads the body of a request that has one, and the routes run when it    *)
(* has been read (BodyRead), else at once. The handler of "/api/health"    *)
(* sends its query to the store and yields at its await; it answers when   *)
(* the reply resumes it (StoreReplies); every other handler answers in the *)
(* step in which the routes run. pending is the bag of the exchanges in    *)
(* flight: the request, where it stands ("body" or "store"), and for one   *)
(* at its await the response it will send and the database its query       *)
(* found. http is the exchange answered last, until the response has been  *)
(* delivered (Delivered): the request, the response and the database the   *)
(* handler queried (NoSnapshot if it made no query). The store may fail    *)
(* (fault) and recover at any time.                                        *)
(***************************************************************************)
MaxPending == 2

Methods == {"GET", "POST", "PATCH", "DELETE", "HEAD", "OPTIONS"}

Paths ==
    {"/", "/api/health", "/api/health/", "/API/Health", "/health",
     "/api/spaces", "/api/spaces/", "/api/spaces/c1", "/api/spaces/c1/",
     "/api/spaces/nope", "/spaces", "/spaces/c1", "/api"}

HttpBodies == {Body(Str(" a "), Num(1, 1)), Body(Str("b"), Str("2"))}

\* the paths that requests with a body are sent to
BodyPaths == {"/api/spaces", "/api/spaces/c1", "/spaces"}

\* failures of the store: the database refuses connections; no connection of
\* the pool (connectionLimit 5) gets free in time; the server is read-only
\* and rejects every write (MariaDB error 1290)
StoreFaults ==
    {Fault("all", "connect ECONNREFUSED 127.0.0.1:3306"),
     Fault("all", "pool timeout: failed to retrieve a connection from pool after 10000ms"),
     Fault("write", "The MariaDB server is running with the --read-only option so it cannot execute this statement")}

spaceOthers ==
    <<store, clock, nextId, pc, req, resp, calls, overlap, before, deleted, fresh,
      listed, thrown, classified, inflight, last, cache, view, queries, svc, users, ures, form, server>>

spaceVars == <<spaceOthers, pending>>

\* cors() ends an OPTIONS request before express.json() and the routes;
\* express.json() reads the body of any other request that has one
ReadsBody(r) == r.method # "OPTIONS" /\ r.body # NoBody

\* the handler that the routes give the request to awaits the store
AwaitsStore(r) ==
    /\ r.method # "OPTIONS"
    /\ IsGet(r.method)
    /\ RouteMatches("/api/health", r.path)

InFlight(r, phase, response, db) ==
    [req |-> r, phase |-> phase, resp |-> response, db |-> db]

\* the routes run for request r, rest being the other exchanges in flight
Routed(r, rest) ==
    IF AwaitsStore(r)
    THEN /\ pending' = rest (+) SetToBag({InFlight(r, "store", app(r, DB), DB)})
         /\ UNCHANGED http
    ELSE /\ pending' = rest
         /\ http' = [req |-> r, resp |-> app(r, DB), db |-> NoSnapshot]

AppRequest(r) ==
    /\ http = NoExchange
    /\ IF ReadsBody(r)
       THEN /\ BagCardinality(pending) < MaxPending
            /\ pending' = pending (+) SetToBag({InFlight(r, "body", NoExchange.resp,
                                                         NoSnapshot)})
            /\ UNCHANGED http
       ELSE /\ AwaitsStore(r) => BagCardinality(pending) < MaxPending
            /\ Routed(r, pending)
    /\ UNCHANGED <<spaceOthers, fault>>

\* express.json() has read the body of a request: the routes run
BodyRead(x) ==
    /\ BagIn(x, pending)
    /\ x.phase = "body"
    /\ Routed(x.req, pending (-) SetToBag({x}))
    /\ UNCHANGED <<spaceOthers, fault>>

\* the reply of the store resumes a handler, which sends its response
StoreReplies(x) ==
    /\ BagIn(x, pending)
    /\ x.phase = "store"
    /\ pending' = pending (-) SetToBag({x})
    /\ http' = [req |-> x.req, resp |-> x.resp, db |-> x.db]
    /\ UNCHANGED <<spaceOthers, fault>>

\* the response of the exchange answered last has been delivered
Delivered ==
    /\ http # NoExchange
    /\ http' = NoExchange
    /\ UNCHANGED <<spaceOthers, fault, pending>>

StoreFails(f) ==
    /\ ~fault.on
    /\ fault' = f
    /\ UNCHANGED <<spaceVars, http>>

StoreRecovers ==
    /\ fault.on
    /\ fault' = NoFault
    /\ UNCHANGED <<spaceVars, http>>

AppRequests ==
    {HttpRequest(m, path, NoBody) : m \in Methods, path \in Paths}
    \cup {HttpRequest(m, path, body) :
             m \in {"POST", "PATCH"}, path \in BodyPaths, body \in HttpBodies}

AppNext ==
    \/ \E r \in AppRequests : AppRequest(r)
    \/ \E x \in BagToSet(pending) : BodyRead(x)
    \/ \E x \in BagToSet(pending) : StoreReplies(x)
    \/ Delivered
    \/ \E f \in StoreFaults : StoreFails(f)
    \/ StoreRecovers

AppSpec == Init /\ [][AppNext]_vars

(***************************************************************************)
(* FaultSpec: the handlers of the space feature with a store that may fail *)
(* and recover at any time, also while a handler waits for its reply: a    *)
(* store call fails or not by the state of the store when it is made.      *)
(***************************************************************************)
FaultCreateBodies ==
    {Body(Str(" a "), Num(1, 1)), Body(Str("  "), Num(1, 1)),
     Body(Str("b"), Big), Body(Num(123, 1), Num(1, 1))}

FaultUpdateBodies ==
    {Body(Str("b"), Undefined), Body(Undefined, Num(0, 1)), NoBody}

FaultNext ==
    \/ \E body \in FaultCreateBodies :
           CreateSpace(body) /\ UNCHANGED others
    \/ \E id \in IdInputs : GetSpace(id) /\ UNCHANGED others
    \/ ListSpaces /\ UNCHANGED others
    \/ \E id \in IdInputs, body \in FaultUpdateBodies :
           UpdateSpace(id, body) /\ UNCHANGED others
    \/ \E id \in IdInputs : DeleteSpace(id) /\ UNCHANGED others
    \/ Reply /\ UNCHANGED others
    \/ Retire /\ UNCHANGED others
    \/ \E f \in StoreFaults : StoreFails(f)
    \/ StoreRecovers

FaultSpec == Init /\ [][FaultNext]_vars

(***************************************************************************)
(* RaceSpec: two requests handled at once. A handler validates its request *)
(* (which reads nothing of the store), makes its one store call, yields at *)
(* its await and answers when the reply resumes it; the store applies each *)
(* call atomically, so a handler takes effect at its store call: Arrive    *)
(* takes the request in; Run is the handler up to its await, with its      *)
(* store call applied and the response it will send settled (a handler     *)
(* whose usecase throws before any store call answers in this step);       *)
(* Respond is the handler resumed, sending the response; Finish ends the   *)
(* exchange. Between Run and Respond of one request the other request      *)
(* runs and is answered. inflight[p].found tells that the record of the    *)
(* request was stored when the store call of p was applied, overlapped     *)
(* that the request arrived while the other was being handled; last is the *)
(* process whose store call was applied last. One record is created, and   *)
(* every request is about it.                                              *)
(***************************************************************************)
RaceBodies ==
    {Body(Str("b"), Undefined), Body(Str(" a "), Num(1, 1)),
     Body(Undefined, Str("2")), Body(Str("  "), Undefined)}

RaceRequests ==
    {Request("create", "", Body(Str("c"), Num(3, 1))),
     Request("delete", Cuid(1), NoBody),
     Request("get", Cuid(1), NoBody),
     Request("list", "", NoBody)}
    \cup {Request("update", Cuid(1), b) : b \in RaceBodies}

\* the handler that spaceRouter gives a request to
Handle(r, db) ==
    CASE r.op = "create" -> {createSpace(r.body, db)}
      [] r.op = "get"    -> {getSpace(r.id, db)}
      [] r.op = "list"   -> listSpaces(db)
      [] r.op = "update" -> {updateSpace(r.id, r.body, db)}
      [] r.op = "delete" -> {deleteSpace(r.id, db)}

raceOthers ==
    <<pc, req, resp, calls, overlap, before, deleted, fresh, listed, fault, http,
      thrown, classified, cache, view, queries, svc, users, ures, form, server, pending>>

Arrive(p, r) ==
    /\ inflight[p].state = "none"
    /\ r.op = "create"
       => /\ nextId = 1
          /\ \A q \in Procs : inflight[q].req.op # "create"
    /\ inflight' = [inflight EXCEPT ![p] =
           [NoFlight EXCEPT
              !.state = "running",
              !.req = r,
              !.overlapped = \E q \in Procs \ {p} :
                                inflight[q].state = "running"]]
    /\ UNCHANGED <<store, clock, nextId, last, raceOthers>>

Run(p) ==
    /\ inflight[p].state = "running"
    /\ \E out \in Handle(inflight[p].req, DB) :
           /\ store' = out.db.store
           /\ nextId' = out.db.nextId
           /\ inflight' = [inflight EXCEPT ![p] =
                  [@ EXCEPT !.state = IF out.calls > 0
                                      THEN "settled" ELSE "answered",
                            !.resp = out.resp,
                            !.calls = out.calls,
                            !.found = inflight[p].req.id \in Ids(store)]]
           /\ last' = IF out.calls > 0 THEN p ELSE last
    /\ UNCHANGED <<clock, raceOthers>>

\* res.status(..).json(..): the handler, resumed by the reply of the store,
\* sends its response
Respond(p) ==
    /\ inflight[p].state = "settled"
    /\ inflight' = [inflight EXCEPT ![p].state = "answered"]
    /\ UNCHANGED <<store, clock, nextId, last, raceOthers>>

Finish(p) ==
    /\ inflight[p].state = "answered"
    /\ inflight' = [inflight EXCEPT ![p] = NoFlight]
    /\ UNCHANGED <<store, clock, nextId, last, raceOthers>>

Elapse ==
    /\ clock < MaxClock
    /\ clock' = clock + 1
    /\ UNCHANGED <<store, nextId, inflight, last, raceOthers>>

RaceNext ==
    \/ \E p \in Procs, r \in RaceRequests : Arrive(p, r)
    \/ \E p \in Procs : Run(p)
    \/ \E p \in Procs : Respond(p)
    \/ \E p \in Procs : Finish(p)
    \/ Elapse

RaceSpec == Init /\ [][RaceNext]_vars

(***************************************************************************)
(* HangSpec: two requests handled at once by a store whose calls may never *)
(* return. A handler awaits its store call; when the call has returned or  *)
(* failed, or the handler needed none, its response is settled (Settle)    *)
(* and the handler sends it (Respond). If the call never returns (Hang)    *)
(* the handler stays at its await (Stall): no handler has a timer or a way *)
(* to be cancelled. A store call that never returns is taken not to have   *)
(* been applied. The event loop resumes every handler whose store call has *)
(* returned, hence the fairness of Respond.                                *)
(***************************************************************************)
HangRequests ==
    {Request("create", "", Body(Str("c"), Num(3, 1))),
     Request("create", "", Body(Str(""), Num(3, 1))),
     Request("get", Cuid(1), NoBody),
     Request("list", "", NoBody),
     Request("update", Cuid(1), Body(Str("b"), Undefined)),
     Request("delete", Cuid(1), NoBody)}

\* a handler with a timer: the request whose store call hangs is answered 500
awaitHung_TimesOut(f) ==
    [f EXCEPT !.state = "answered",
              !.resp = Response(500, "error", "timeout", <<>>)]

\* await of a store call that does not return: the handler stays where it is
awaitHung(f) == f

\* the store call of the request returns or fails, or none was needed
Settle(p) ==
    /\ inflight[p].state = "running"
    /\ \E out \in Handle(inflight[p].req, DB) :
           /\ store' = out.db.store
           /\ nextId' = out.db.nextId
           /\ inflight' = [inflight EXCEPT ![p] =
                  [@ EXCEPT !.state = "settled", !.resp = out.resp,
                            !.calls = out.calls,
                            !.found = inflight[p].req.id \in Ids(store)]]
           /\ last' = IF out.calls > 0 THEN p ELSE last
    /\ UNCHANGED <<clock, raceOthers>>

\* the store call of the request never returns
Hang(p) ==
    /\ inflight[p].state = "running"
    /\ \E out \in Handle(inflight[p].req, DB) : out.calls > 0
    /\ inflight' = [inflight EXCEPT ![p].state = "hung"]
    /\ UNCHANGED <<store, clock, nextId, last, raceOthers>>

\* the handler of a request whose store call never returns
Stall(p) ==
    /\ inflight[p].state = "hung"
    /\ inflight' = [inflight EXCEPT ![p] = awaitHung(inflight[p])]
    /\ UNCHANGED <<store, clock, nextId, last, raceOthers>>

HangNext ==
    \/ \E p \in Procs, r \in HangRequests : Arrive(p, r)
    \/ \E p \in Procs : Settle(p)
    \/ \E p \in Procs : Respond(p)
    \/ \E p \in Procs : Hang(p)
    \/ \E p \in Procs : Stall(p)
    \/ \E p \in Procs : Finish(p)

HangSpec ==
    Init /\ [][HangNext]_vars /\ \A p \in Procs : WF_inflight(Respond(p))

(***************************************************************************)
(* Calls of the frontend in flight. A call is sent, the backend handles    *)
(* it, and later its promise settles; what the frontend does between is    *)
(* not held up. A call is [kind, op, id, input, phase, ok, status, data]:  *)
(* kind says who awaits it (a query, a mutation, or a caller of the        *)
(* service), phase is "sent" until the backend has handled the request and *)
(* "served" until the promise settles.                                     *)
(***************************************************************************)
Call(kind, op, id, input) ==
    [kind |-> kind, op |-> op, id |-> id, input |-> input, phase |-> "sent",
     ok |-> FALSE, status |-> 0, data |-> <<>>]

\* the function of the service that the call runs
Service(x, db) ==
    CASE x.op = "health" -> {fetchHealth(db)}
      [] x.op = "list"   -> fetchSpaces(db)
      [] x.op = "get"    -> {fetchSpaceById(x.id, db)}
      [] x.op = "create" -> {serviceCreateSpace(x.input, db)}
      [] x.op = "update" -> {serviceUpdateSpace(x.id, x.input, db)}
      [] x.op = "delete" -> {serviceDeleteSpace(x.id, db)}

frontOthers ==
    <<clock, pc, req, resp, calls, overlap, before, deleted, fresh, listed, http,
      thrown, classified, inflight, last, users, ures, server>>

\* the backend handles the request of a call
Served(x) ==
    /\ BagIn(x, pending)
    /\ x.phase = "sent"
    /\ \E f \in Service(x, DB) :
           /\ store' = f.db.store
           /\ nextId' = f.db.nextId
           /\ pending' = (pending (-) SetToBag({x}))
                          (+) SetToBag({[x EXCEPT !.phase = "served",
                                                  !.ok = f.ok,
                                                  !.status = f.status,
                                                  !.data = f.data]})
    /\ UNCHANGED <<fault, cache, view, queries, svc, form, frontOthers>>

\* isPending of the mutations of the form
IsPending ==
    \E x \in BagToSet(pending) :
        x.kind = "mutation" /\ x.op \in {"create", "update"}

(***************************************************************************)
(* PageSpec: the spaces page. It reads the list through useSpaces, opens   *)
(* the form to create or to edit a space of the list it shows, changes the *)
(* fields, cancels or submits, and deletes a space of the list; a submit   *)
(* goes through useCreateSpace or useUpdateSpace, a delete through         *)
(* useDeleteSpace. view is what the hooks did last: op ("read" or          *)
(* "mutate"), whether it succeeded, whether a read fetched; and of the     *)
(* cache entry as it was before: whether it held a list (had), of which    *)
(* length, whether it was invalidated, and whether it is kept as it was.   *)
(***************************************************************************)
FormNames == {"a", "b", " "}

FormCapacities == {0, 1, 2}

\* the ids of the spaces the page shows
Shown == {cache.data[i].id : i \in DOMAIN cache.data}

ViewOf(op, ok, refetched, c) ==
    [op |-> op, ok |-> ok, refetched |-> refetched, had |-> cache.has,
     wasInvalidated |-> cache.invalidated, hadLen |-> Len(cache.data),
     kept |-> c = cache]

\* the page renders: the list is served from the cache, or fetched unless a
\* fetch is under way
ReadSpaces ==
    /\ IF ~IsStale(cache)
       THEN /\ view' = ViewOf("read", TRUE, FALSE, cache)
            /\ UNCHANGED pending
       ELSE /\ \A x \in BagToSet(pending) : x.kind # "query"
            /\ BagCardinality(pending) < MaxPending
            /\ pending' = pending (+) SetToBag({Call("query", "list", "", NoBody)})
            /\ UNCHANGED view
    /\ UNCHANGED <<store, nextId, fault, cache, queries, svc, form, frontOthers>>

\* the fetch of the list settles
ReadSettles(x) ==
    /\ BagIn(x, pending)
    /\ x.kind = "query"
    /\ x.phase = "served"
    /\ pending' = pending (-) SetToBag({x})
    /\ cache' = useQuery(x, cache).cache
    /\ view' = ViewOf("read", x.ok, TRUE, useQuery(x, cache).cache)
    /\ UNCHANGED <<store, nextId, fault, queries, svc, form, frontOthers>>

OpenCreate ==
    /\ form' = handleCreate(form)
    /\ UNCHANGED <<store, nextId, fault, cache, view, queries, svc, pending,
                   frontOthers>>

OpenEdit(space) ==
    /\ form' = handleEdit(form, space)
    /\ UNCHANGED <<store, nextId, fault, cache, view, queries, svc, pending,
                   frontOthers>>

Change(name, capacity) ==
    /\ form.show
    /\ form' = setFormData(form, name, capacity)
    /\ UNCHANGED <<store, nextId, fault, cache, view, queries, svc, pending,
                   frontOthers>>

Cancel ==
    /\ form.show
    /\ form' = cancel(form)
    /\ UNCHANGED <<store, nextId, fault, cache, view, queries, svc, pending,
                   frontOthers>>

\* mutateAsync: the request of the mutation is sent
Mutate(op, id, input) ==
    /\ BagCardinality(pending) < MaxPending
    /\ pending' = pending (+) SetToBag({Call("mutation", op, id, input)})
    /\ UNCHANGED <<store, nextId, fault, cache, view, queries, svc, form,
                   frontOthers>>

\* handleSubmit up to its await; the submit button is disabled while a
\* mutation of the form is pending
SubmitCreate ==
    /\ form.show
    /\ form.editing = {}
    /\ FormIsValid(form)
    /\ ~IsPending
    /\ Mutate("create", "", Body(Str(form.name), Num(form.capacity, 1)))

SubmitEdit ==
    /\ form.show
    /\ FormIsValid(form)
    /\ ~IsPending
    /\ \E space \in form.editing :
           Mutate("update", space.id, updateInput(form, space))

\* handleDelete, confirmed; the delete buttons are disabled while a delete
\* is pending
DeleteShown(id) ==
    /\ \A x \in BagToSet(pending) : ~(x.kind = "mutation" /\ x.op = "delete")
    /\ Mutate("delete", id, NoBody)

\* the mutation settles: onSuccess of the hook, and for a submit the rest of
\* handleSubmit
MutationSettles(x) ==
    /\ BagIn(x, pending)
    /\ x.kind = "mutation"
    /\ x.phase = "served"
    /\ pending' = pending (-) SetToBag({x})
    /\ cache' = useMutation(x, cache).cache
    /\ view' = ViewOf("mutate", x.ok, FALSE, useMutation(x, cache).cache)
    /\ form' = IF x.op = "delete" THEN form
               ELSE handleSubmit(form, x.input, x.ok, x.status)
    /\ UNCHANGED <<store, nextId, fault, queries, svc, frontOthers>>

PageNext ==
    \/ ReadSpaces
    \/ OpenCreate
    \/ \E i \in DOMAIN cache.data : OpenEdit(cache.data[i])
    \/ \E name \in FormNames, capacity \in FormCapacities :
           Change(name, capacity)
    \/ Cancel
    \/ SubmitCreate
    \/ SubmitEdit
    \/ \E id \in Shown : DeleteShown(id)
    \/ \E x \in BagToSet(pending) : Served(x)
    \/ \E x \in BagToSet(pending) : ReadSettles(x)
    \/ \E x \in BagToSet(pending) : MutationSettles(x)

PageSpec == Init /\ [][PageNext]_vars

(***************************************************************************)
(* RetrySpec: the frontend calls the API. The pages mount the queries      *)
(* (useHealth, useSpaces), whose query functions are called until they     *)
(* resolve or their retries are used up; the five functions of the space   *)
(* service are called. The store may fail and recover at any time. svc is  *)
(* the call of the service that settled last.                              *)
(***************************************************************************)
ServiceCreateInputs == {Body(Str(" a "), Num(1, 1))}

ServiceUpdateInputs == {NoBody}

ServiceIds == {Cuid(1)}

ServiceRequests ==
    {Request("list", "", NoBody)}
    \cup {Request("create", "", b) : b \in ServiceCreateInputs}
    \cup {Request("get", id, NoBody) : id \in ServiceIds}
    \cup {Request("update", id, b) : id \in ServiceIds, b \in ServiceUpdateInputs}
    \cup {Request("delete", id, NoBody) : id \in ServiceIds}

\* a page with the query mounts
Mount(k) ==
    /\ queries[k].status = "idle"
    /\ queries' = [queries EXCEPT ![k].status = "loading"]
    /\ UNCHANGED <<store, nextId, fault, cache, view, svc, form, pending,
                   frontOthers>>

\* the query client calls the query function of a loading query
Fetch(k) ==
    /\ queries[k].status = "loading"
    /\ \A x \in BagToSet(pending) : ~(x.kind = "query" /\ x.op = queryFn(k))
    /\ BagCardinality(pending) < MaxPending
    /\ pending' = pending (+) SetToBag({Call("query", queryFn(k), "", NoBody)})
    /\ UNCHANGED <<store, nextId, fault, cache, view, queries, svc, form,
                   frontOthers>>

\* the call of the query function settles
FetchSettles(k, x) ==
    /\ BagIn(x, pending)
    /\ x.kind = "query"
    /\ x.op = queryFn(k)
    /\ x.phase = "served"
    /\ pending' = pending (-) SetToBag({x})
    /\ queries' = [queries EXCEPT ![k] = Fetched(queries[k], x.ok, retry(k))]
    /\ UNCHANGED <<store, nextId, fault, cache, view, svc, form, frontOthers>>

\* the page is left
Unmount(k) ==
    /\ queries[k].status \in {"success", "error"}
    /\ queries' = [queries EXCEPT ![k] = NoQuery]
    /\ UNCHANGED <<store, nextId, fault, cache, view, svc, form, pending,
                   frontOthers>>

\* fetchSpaces, fetchSpaceById, createSpace, updateSpace or deleteSpace is
\* called: its request is sent
CallService(r) ==
    /\ BagCardinality(pending) < MaxPending
    /\ pending' = pending (+) SetToBag({Call("service", r.op, r.id, r.body)})
    /\ UNCHANGED <<store, nextId, fault, cache, view, queries, svc, form,
                   frontOthers>>

\* the promise of the call settles
ServiceSettles(x) ==
    /\ BagIn(x, pending)
    /\ x.kind = "service"
    /\ x.phase = "served"
    /\ pending' = pending (-) SetToBag({x})
    /\ svc' = [op |-> x.op, sent |-> 1, ok |-> x.ok, status |-> x.status]
    /\ UNCHANGED <<store, nextId, fault, cache, view, queries, form, frontOthers>>

RetryNext ==
    \/ \E k \in QueryKeys : Mount(k)
    \/ \E k \in QueryKeys : Fetch(k)
    \/ \E k \in QueryKeys, x \in BagToSet(pending) : FetchSettles(k, x)
    \/ \E k \in QueryKeys : Unmount(k)
    \/ \E r \in ServiceRequests : CallService(r)
    \/ \E x \in BagToSet(pending) : Served(x)
    \/ \E x \in BagToSet(pending) : ServiceSettles(x)
    \/ \E f \in StoreFaults : StoreFails(f)
    \/ StoreRecovers

RetrySpec == Init /\ [][RetryNext]_vars

(***************************************************************************)
(* UserSpec: calls of userService.createUser, up to two at once. ures[p]   *)
(* is the call p makes; the store answers each findUnique and each create  *)
(* at once, in the order they reach it, and a call is resumed later.       *)
(***************************************************************************)
Emails == {"test@example.com", "new@example.com"}

UserNames == {Undefined, Str("Test")}

UserInputs == {UserInput(e, n) : e \in Emails, n \in UserNames}

userOthers ==
    <<store, clock, nextId, pc, req, resp, calls, overlap, before, deleted, fresh,
      listed, fault, http, thrown, classified, inflight, last, cache, view,
      queries, svc, form, server, pending>>

CreateUser(p, data) ==
    /\ ures[p].phase \in {"none", "settled"}
    /\ ures' = [ures EXCEPT ![p] = createUser(data)]
    /\ UNCHANGED <<users, userOthers>>

\* the store answers findUnique
FindUnique(p) ==
    /\ ures[p].phase = "lookup"
    /\ ures' = [ures EXCEPT ![p] =
                   [@ EXCEPT !.phase = "found",
                             !.existing =
                                userFindUnique(users, ures[p].data.email)]]
    /\ UNCHANGED <<users, userOthers>>

\* the call is resumed after await findUnique
FindUniqueReturns(p) ==
    /\ ures[p].phase = "found"
    /\ ures' = [ures EXCEPT ![p] = createUserFound(ures[p])]
    /\ UNCHANGED <<users, userOthers>>

\* the store answers create
Create(p) ==
    /\ ures[p].phase = "create"
    /\ \E out \in {userCreate(users, ures[p].data)} :
           /\ users' = out.users
           /\ ures' = [ures EXCEPT ![p] = createUserCreated(ures[p], out)]
    /\ UNCHANGED userOthers

\* the promise of the call settles
CreateReturns(p) ==
    /\ ures[p].phase = "created"
    /\ ures' = [ures EXCEPT ![p].phase = "settled"]
    /\ UNCHANGED <<users, userOthers>>

UserNext ==
    \/ \E p \in UserProcs, data \in UserInputs : CreateUser(p, data)
    \/ \E p \in UserProcs : FindUnique(p)
    \/ \E p \in UserProcs : FindUniqueReturns(p)
    \/ \E p \in UserProcs : Create(p)
    \/ \E p \in UserProcs : CreateReturns(p)

UserSpec == Init /\ [][UserNext]_vars

(***************************************************************************)
(* ServerSpec: the life of the process of server.ts. The store decides     *)
(* whether $connect, the test query and $disconnect succeed; signals come  *)
(* while the process lives, at most MaxSignals of them. A handler whose    *)
(* $disconnect has settled may be resumed before startServer is.           *)
(***************************************************************************)
MaxSignals == 2

serverOthers ==
    <<store, clock, nextId, pc, req, resp, calls, overlap, before, deleted, fresh,
      listed, fault, http, thrown, classified, inflight, last, cache, view,
      queries, svc, users, ures, form, pending>>

ConnectSettles(ok) ==
    /\ server.phase = "connect"
    /\ server' = connectSettled(server, ok)
    /\ UNCHANGED serverOthers

QuerySettles(ok) ==
    /\ server.phase = "query"
    /\ server' = querySettled(server, ok)
    /\ UNCHANGED serverOthers

\* startServer is resumed with what connectDatabase returned
StartServer ==
    /\ server.phase = "returned"
    /\ server' = startServer(server, server.isConnected)
    /\ UNCHANGED serverOthers

\* a signal is delivered; none is between the return of connectDatabase and
\* the resumption of startServer, which are in one turn of the event loop
Signal(sig) ==
    /\ server.phase \notin {"exited", "returned"}
    /\ Len(SelectSeq(server.log, LAMBDA e : e \in ServerSignals)) < MaxSignals
    /\ server' = onSignal(server, sig)
    /\ UNCHANGED serverOthers

\* a handler is resumed, or its rejection ends the process; the run time
\* looks at unhandled rejections when all that can be resumed has been
DisconnectSettles(ok) ==
    /\ server.phase # "exited"
    /\ ok \/ server.phase # "returned"
    /\ server.handlers # <<>>
    /\ server' = disconnectSettled(server, ok)
    /\ UNCHANGED serverOthers

ServerNext ==
    \/ \E ok \in BOOLEAN : ConnectSettles(ok)
    \/ \E ok \in BOOLEAN : QuerySettles(ok)
    \/ StartServer
    \/ \E sig \in ServerSignals : Signal(sig)
    \/ \E ok \in BOOLEAN : DisconnectSettles(ok)

ServerSpec == Init /\ [][ServerNext]_vars

(***************************************************************************)
(* ErrorSpec: handleError applied to a thrown value. thrown is the value   *)
(* (an Error with a message, or a value that is no Error, such as a thrown *)
(* string, written with isError FALSE and its text as message);            *)
(* classified is the response handleError sent for it.                     *)
(***************************************************************************)
MaxFragments == 2

Fragments ==
    {"not found", "required", "must", "cannot", "no fields", "found",
     "Not Found", "space ", " is ", "x"}

RECURSIVE Messages(_)
Messages(n) ==
    IF n = 0 THEN {""}
    ELSE Messages(n - 1) \cup {m \o f : m \in Messages(n - 1), f \in Fragments}

ThrownValues ==
    [isError : BOOLEAN, message : Messages(MaxFragments)]

ErrorInit ==
    /\ store = {}
    /\ clock = 0
    /\ nextId = 1
    /\ pc = "idle"
    /\ req = NoRequest
    /\ resp = NoResponse
    /\ calls = 0
    /\ overlap = 0
    /\ before = NoSnapshot
    /\ deleted = {}
    /\ fresh = {}
    /\ listed = NoListed
    /\ fault = NoFault
    /\ http = NoExchange
    /\ thrown \in ThrownValues
    /\ classified = NoResponse
    /\ inflight = [p \in Procs |-> NoFlight]
    /\ last = 0
    /\ cache = NoCache
    /\ view = NoView
    /\ queries = NoQueries
    /\ svc = NoService
    /\ users = NoUsers
    /\ ures = NoUserCalls
    /\ form = NoForm
    /\ server = NoServer
    /\ pending = EmptyBag

\* catch (err) { handleError(res, err) }
Classify ==
    /\ classified = NoResponse
    /\ classified' = handleError(thrown)
    /\ UNCHANGED <<store, clock, nextId, pc, req, resp, calls, overlap, before, deleted,
                   fresh, listed, fault, http, thrown, inflight, last, cache,
                   view, queries, svc, users, ures, form, server, pending>>

ErrorNext == Classify

ErrorSpec == ErrorInit /\ [][ErrorNext]_vars

(***************************************************************************)
(* Properties.                                                             *)
(***************************************************************************)
\* the handler of a request of kind op has answered
Done(op) == pc = "done" /\ req.op = op

\* the step in which the handler of a request runs: to its answer if it
\* makes no store call, else to its store call, which decides the answer
\* (req', resp') and the effect on the stored records (store to store')
Handles(op) == pc = "idle" /\ pc' # "idle" /\ req'.op = op

\* a name that is a string, and blank or not after trimming
NameIsBlank(v) == v.t = "string" /\ trim(v.s) = ""
NameIsValid(v) == v.t = "string" /\ trim(v.s) # ""

\* a capacity that the controller's coercion makes a positive integer
CapIsPositiveInteger(v) ==
    NumberIsInteger(Number(v)) /\ ~LeqZero(Number(v))

\* C1: every stored record has an integer capacity greater than 0 and a name
\* that is neither empty nor whitespace-only.
C1_StoredRecordsValid ==
    \A r \in store :
        /\ r.capacity \in Int
        /\ r.capacity > 0
        /\ r.name # ""
        /\ trim(r.name) # ""

\* creates, an update and a delete have acted and records are stored
C1_Witness ==
    /\ deleted # {}
    /\ \E r \in store : r.updatedAt > r.createdAt

\* C2: a create whose name is non-blank after trimming and whose capacity is
\* a positive integer succeeds (201), persists exactly one new record, and
\* returns a DTO with a non-empty id, createdAt = updatedAt, the trimmed name
\* and the given capacity.
C2_ValidCreateSucceeds ==
    [][(/\ Handles("create")
        /\ NameIsValid(req'.body.name)
        /\ CapIsPositiveInteger(req'.body.capacity))
       => /\ resp'.status = 201
          /\ resp'.kind = "dto"
          /\ resp'.items[1].id # ""
          /\ resp'.items[1].createdAt = resp'.items[1].updatedAt
          /\ resp'.items[1].name = trim(req'.body.name.s)
          /\ Number(req'.body.capacity).k = "rat"
          /\ resp'.items[1].capacity = IntValue(Number(req'.body.capacity))
          /\ store \subseteq store'
          /\ Cardinality(store' \ store) = 1
          /\ \A r \in store' \ store :
                 /\ r.id = resp'.items[1].id
                 /\ r.id \notin Ids(store)]_vars

\* C3: a create whose capacity is less than or equal to 0 or no integer fails
\* with a validation error (400) and the stored records are as before.
C3_InvalidCapacityRejected ==
    (Done("create") /\ ~CapIsPositiveInteger(req.body.capacity))
    => /\ resp.status = 400
       /\ resp.kind = "error"
       /\ store = before.store

\* C4: a create whose name is empty or whitespace-only is answered 400 with
\* the error "name is required", and the stored records are as before.
C4_BlankNameRejected ==
    (Done("create") /\ NameIsBlank(req.body.name))
    => /\ resp = Response(400, "error", "name is required", <<>>)
       /\ store = before.store

\* a whitespace-only name was rejected while records exist
C4_Witness ==
    /\ Done("create")
    /\ req.body.name = Str(" \r")
    /\ resp.status = 400
    /\ store # {}
    /\ store = before.store

\* a capacity that is a positive integer and fits the store's Int
CapIsStorable(v) == CapIsPositiveInteger(v) /\ FitsInt(Number(v))

\* a create or update body with a malformed, missing or out-of-range field
\* (the fields of an update are optional: an absent one is not malformed)
CreateMalformed(b) == ~NameIsValid(b.name) \/ ~CapIsStorable(b.capacity)
UpdateMalformed(b) ==
    \/ b.name # Undefined /\ ~NameIsValid(b.name)
    \/ b.capacity # Undefined /\ ~CapIsStorable(b.capacity)

\* an update body whose supplied fields are all valid, with at least one
UpdateAccepted(b) ==
    /\ ~UpdateMalformed(b)
    /\ b.name # Undefined \/ b.capacity # Undefined

\* C5: a create or update request with a malformed, missing or out-of-range
\* name or capacity is answered 400 before any store call, and changes nothing.
C5_MalformedRejectedBeforeStore ==
    [][(/\ pc = "idle"
        /\ pc' # "idle"
        /\ \/ req'.op = "create" /\ CreateMalformed(req'.body)
           \/ req'.op = "update" /\ UpdateMalformed(req'.body))
       => /\ resp'.status = 400
          /\ calls' = 0
          /\ store' = store]_vars

\* C6: getById, delete and an update with valid fields, applied to an id that
\* no stored record has, are answered 404 with a not-found error and leave
\* the stored records as they were.
C6_MissingIdNotFound ==
    [][(/\ pc = "idle"
        /\ pc' # "idle"
        /\ req'.id \notin Ids(store)
        /\ \/ req'.op \in {"get", "delete"}
           \/ req'.op = "update" /\ UpdateAccepted(req'.body))
       => /\ resp'.status = 404
          /\ resp'.kind = "error"
          /\ Includes(resp'.error, "not found")
          /\ store' = store]_vars

\* an update with valid fields of a record that was deleted before
C6_Witness ==
    /\ Done("update")
    /\ UpdateAccepted(req.body)
    /\ req.id \in deleted
    /\ resp.status = 404
    /\ store # {}

\* C7: a successful update sets the supplied fields of the addressed record
\* (name to its trimmed value, capacity to the given value) and its updatedAt
\* to the time of the update; the unsupplied field, the id and the createdAt
\* of that record and every other record are as before.
C7_UpdateChangesOnlySupplied ==
    [][(Handles("update") /\ resp'.status = 200)
       => \E old \in store :
             /\ old.id = req'.id
             /\ old.updatedAt <= clock
             /\ store' = (store \ {old}) \cup
                    {[id        |-> old.id,
                      name      |-> IF req'.body.name.t = "string"
                                    THEN trim(req'.body.name.s) ELSE old.name,
                      capacity  |-> IF req'.body.capacity # Undefined
                                    THEN IntValue(Number(req'.body.capacity))
                                    ELSE old.capacity,
                      createdAt |-> old.createdAt,
                      updatedAt |-> clock]}]_vars

\* an update with only capacity changed the capacity and the updatedAt of one
\* of two records
C7_Witness ==
    /\ Done("update")
    /\ resp.status = 200
    /\ req.body.name = Undefined
    /\ Cardinality(store) = 2
    /\ \E old \in before.store, new \in store :
          /\ old.id = req.id
          /\ new.id = req.id
          /\ new.name = old.name
          /\ new.capacity # old.capacity
          /\ new.updatedAt > old.updatedAt

\* C8: an update with neither name nor capacity is answered 400 with the
\* error "no fields to update", whether the id matches a record or not,
\* without a store call; the stored records are as before.
C8_EmptyUpdateRejected ==
    (/\ Done("update")
     /\ req.body.name = Undefined
     /\ req.body.capacity = Undefined)
    => /\ resp = Response(400, "error", "no fields to update", <<>>)
       /\ calls = 0
       /\ store = before.store

\* an empty update of an existing record, at a time later than its updatedAt
C8_Witness ==
    /\ Done("update")
    /\ req.body = NoBody
    /\ resp.status = 400
    /\ \E r \in store : r.id = req.id /\ r.updatedAt < clock

\* C9: once delete(id) was answered 204, no stored record has that id, every
\* getById(id) is answered 404 with a not-found error, and no list contains
\* a DTO with that id.
C9_DeleteIsPermanent ==
    /\ [](\A id \in deleted : id \notin Ids(store))
    /\ [][/\ (Handles("get") /\ req'.id \in deleted)
              => (resp'.status = 404 /\ Includes(resp'.error, "not found"))
          /\ Handles("list")
              => (/\ resp'.status = 200
                  /\ \A i \in DOMAIN resp'.items :
                         resp'.items[i].id \notin deleted)]_vars

\* a getById of a deleted id while another record is stored
C9_Witness ==
    /\ Done("get")
    /\ req.id \in deleted
    /\ resp.status = 404
    /\ store # {}

\* C10: a getById of a record that no update or delete was applied to since
\* its creation is answered 200 with the DTO that create returned.
C10_CreateGetRoundTrip ==
    [][Handles("get")
       => \A d \in fresh :
             d.id = req'.id => resp' = Response(200, "dto", "", <<d>>)]_vars

\* a getById returned the DTO of create, with another record stored and at a
\* later time than the creation
C10_Witness ==
    /\ Done("get")
    /\ resp.status = 200
    /\ resp.items[1] \in fresh
    /\ resp.items[1].name = "a"
    /\ Cardinality(store) = 2
    /\ toISOString(clock) # resp.items[1].createdAt

\* the stored record that a DTO with this id stands for
RecordOf(id) == CHOOSE r \in store : r.id = id

\* C11: list is answered 200 with exactly one DTO for every stored record
\* (none for a deleted one), the DTO of a record created later before the DTO
\* of a record created earlier, and with the empty sequence when nothing is
\* stored.
C11_ListAllNewestFirst ==
    [][Handles("list")
       => /\ resp'.status = 200
          /\ resp'.kind = "list"
          /\ Len(resp'.items) = Cardinality(store)
          /\ \A r \in store :
                 Cardinality({i \in DOMAIN resp'.items :
                                 resp'.items[i].id = r.id}) = 1
          /\ \A i \in DOMAIN resp'.items :
                 /\ resp'.items[i].id \in Ids(store)
                 /\ resp'.items[i].id \notin deleted
                 /\ resp'.items[i].name = RecordOf(resp'.items[i].id).name
                 /\ resp'.items[i].capacity = RecordOf(resp'.items[i].id).capacity
          /\ \A i, j \in DOMAIN resp'.items :
                 i < j => RecordOf(resp'.items[i].id).createdAt
                          >= RecordOf(resp'.items[j].id).createdAt
          /\ store = {} => resp'.items = <<>>
          /\ store' = store]_vars

\* a list of two records created at different times
C11_Witness ==
    /\ Done("list")
    /\ Len(resp.items) = 2
    /\ resp.items[1].createdAt # resp.items[2].createdAt

\* C12: two lists with no create, update or delete applied between them are
\* answered with the same DTOs in the same order.
C12_ListTwiceSame ==
    (Done("list") /\ listed.valid) => resp.items = listed.items

\* C13: no two stored records share an id; no step changes the id or the
\* createdAt of a record that stays stored; and a record that enters the
\* store never has an id that was assigned before (the id of a stored or of
\* a deleted record).
C13_IdentityStable ==
    [][/\ \A r1, r2 \in store' : r1.id = r2.id => r1 = r2
       /\ \A r \in store : \A r2 \in store' :
              r.id = r2.id => r2.createdAt = r.createdAt
       /\ \A r2 \in store' :
              r2.id \notin Ids(store) => r2.id \notin deleted]_vars

\* a record created after another was deleted has been updated at a time
\* later than its creation
C13_Witness ==
    /\ Done("update")
    /\ resp.status = 200
    /\ deleted # {}
    /\ \E r \in store : r.id = req.id /\ r.createdAt < clock

\* C14: every stored record has updatedAt >= createdAt; a successful update
\* leaves the updatedAt of its record not earlier than it was; an operation
\* that fails (4xx, 5xx) leaves every record, and so every updatedAt, as it was.
C14_UpdatedAtMonotone ==
    /\ [](\A r \in store : r.updatedAt >= r.createdAt)
    /\ [][/\ (Handles("update") /\ resp'.status = 200)
              => \A old \in store : \A new \in store' :
                     (old.id = req'.id /\ new.id = req'.id)
                     => new.updatedAt >= old.updatedAt
          /\ (pc = "idle" /\ pc' # "idle" /\ resp'.status >= 400)
              => store' = store]_vars

\* an update of the name moved the updatedAt of a record forward
C14_Witness ==
    /\ Done("update")
    /\ resp.status = 200
    /\ req.body.name # Undefined
    /\ \E old \in before.store : \E new \in store :
          /\ old.id = req.id
          /\ new.id = req.id
          /\ new.updatedAt > old.updatedAt
          /\ new.updatedAt > new.createdAt

\* the path of a request below the documented mount of the space endpoints
SpaceMount == "/api/spaces"
SubPath(path) == SubSeq(path, Len(SpaceMount) + 1, Len(path))

\* C15: a request to one of the five space endpoints is answered by its
\* handler, and when the operation succeeds the answer is 201 with the DTO
\* (POST), 200 with the sequence (GET /spaces), 200 with the DTO (GET and
\* PATCH /spaces/:id) or 204 with an empty body (DELETE).
C15_EndpointsReachHandlers ==
    LET r     == http.req
        outs  == spaceRouter(r.method, SubPath(r.path), r.body, http.db)
    IN  (/\ r.method \in {"POST", "GET", "PATCH", "DELETE"}
         /\ Mounted(SpaceMount, r.path)
         /\ outs # {})
        => /\ http.resp \in {Send(o.resp) : o \in outs}
           /\ http.resp.status < 300
              => http.resp.status =
                    CASE r.method = "POST"   -> 201
                      [] r.method = "DELETE" -> 204
                      [] OTHER               -> 200

\* C16: a handled error gets exactly one status from its message: 404 if
\* the message contains "not found"; else 400 if it contains "required",
\* "must", "cannot" or "no fields"; else 500; the message of a thrown value
\* that is no Error is "unknown error" (so 500); the body carries the message
\* as its error field.
C16_ErrorClassified ==
    classified # NoResponse
    => LET msg == IF thrown.isError THEN thrown.message ELSE "unknown error"
           has(w) == Includes(msg, w)
       IN  /\ classified.kind = "error"
           /\ classified.error = msg
           /\ classified.status \in {400, 404, 500}
           /\ classified.status = 404 <=> has("not found")
           /\ classified.status = 400
              <=> /\ ~has("not found")
                  /\ has("required") \/ has("must") \/ has("cannot")
                     \/ has("no fields")

\* a thrown value that is no Error, with a text that names a missing record
\* and a required field, was answered 500
C16_Witness ==
    /\ classified.status = 500
    /\ ~thrown.isError
    /\ thrown.message = "not foundrequired"

\* the kind of store call an operation makes
CallKind(op) == IF op \in {"get", "list"} THEN "read" ELSE "write"

\* C17: an operation whose store call fails for another reason than a
\* missing record (the store is unavailable or rejects the call) is answered
\* 500, never 400 or 404.
C17_StoreFailureIs500 ==
    (/\ pc = "done"
     /\ calls > 0
     /\ Fails(before, CallKind(req.op)))
    => resp.status = 500

\* the name and the capacity that the update of process p writes
NameWritten(p) == trim(inflight[p].req.body.name.s)
CapacityWritten(p) == IntValue(Number(inflight[p].req.body.capacity))

\* the store call of process p has been applied: its handler waits for the
\* reply or has sent its response
Applied(p) == inflight[p].state \in {"settled", "answered"}

\* processes p and q have both run an update with valid fields on the same
\* record, which was stored when the store call of each was applied
BothUpdated(p, q) ==
    /\ p # q
    /\ \A o \in {p, q} :
          /\ Applied(o)
          /\ inflight[o].req.op = "update"
          /\ inflight[o].found
          /\ UpdateAccepted(inflight[o].req.body)
    /\ inflight[p].req.id = inflight[q].req.id

\* C18: every operation makes at most one store call; two updates of the
\* same existing record that are handled at once are both answered 200 (no
\* conflict error), and for a field that both supply the record holds the
\* value of the update whose store call was applied last, whichever it is
\* and in whatever order the two are answered.
C18_LastWriteWins ==
    /\ \A p \in Procs : inflight[p].calls <= 1
    /\ \A p, q \in Procs :
          BothUpdated(p, q)
          => /\ inflight[p].resp.status = 200
             /\ inflight[q].resp.status = 200
             /\ last \in {p, q}
             /\ \E rec \in store :
                   /\ rec.id = inflight[p].req.id
                   /\ (\A o \in {p, q} : inflight[o].req.body.name # Undefined)
                      => rec.name = NameWritten(last)
                   /\ (\A o \in {p, q} : inflight[o].req.body.capacity # Undefined)
                      => rec.capacity = CapacityWritten(last)

\* the update of process 2 arrived while that of process 1 was being
\* handled and was applied first; both have been answered; the record holds
\* the name written by 1
C18_Witness ==
    /\ BothUpdated(1, 2)
    /\ inflight[1].state = "answered"
    /\ inflight[2].state = "answered"
    /\ inflight[2].overlapped
    /\ last = 1
    /\ inflight[1].req.body.name = Str("b")
    /\ inflight[2].req.body.name = Str(" a ")
    /\ \E rec \in store : rec.name = "b" /\ rec.capacity = 1

\* C19: a request to the health endpoint made while the store answers is
\* answered 200 with a body that holds the fields status, message and
\* timestamp.
C19_HealthBody ==
    (/\ http.req.method = "GET"
     /\ RouteMatches("/api/health", http.req.path)
     /\ ~Fails(http.db, "read"))
    => /\ http.resp.status = 200
       /\ {"status", "message", "timestamp"} \subseteq DOMAIN http.resp.body

\* C21: a failed frontend call is never retried, except the health query,
\* which is retried once: a query that ended in error called the health
\* endpoint twice, or the list endpoint once, and no query calls more often;
\* a call of a function of the space service sends one request and resolves
\* exactly when the response is a 2xx.
C21_NoRetryButHealth ==
    /\ \A k \in QueryKeys :
        /\ queries[k].calls <= (IF k = "health" THEN 2 ELSE 1)
        /\ queries[k].status = "error"
           => queries[k].calls = (IF k = "health" THEN 2 ELSE 1)
    /\ svc.op # "none"
       => /\ svc.sent = 1
          /\ svc.ok <=> (svc.status >= 200 /\ svc.status < 300)

\* C22: a call of createUser that has settled and whose email a stored user
\* had when it was looked up failed with "Email already exists" and created
\* no user; one whose email no stored user had created one user with the
\* given email and name and returned it; no two stored users share an
\* email.
C22_CreateUserUniqueEmail ==
    /\ \A p \in UserProcs :
          ures[p].phase = "settled"
          => IF ures[p].existing # {}
             THEN /\ ures[p].threw
                  /\ ures[p].message = "Email already exists"
                  /\ ures[p].value = {}
             ELSE /\ ~ures[p].threw
                  /\ \E u \in ures[p].value :
                       /\ ures[p].value = {u}
                       /\ u.email = ures[p].data.email
                       /\ u.name = (IF ures[p].data.name = Undefined
                                    THEN Null ELSE ures[p].data.name)
                       /\ u \in users
    /\ \A u, v \in users : u.email = v.email => u = v

\* the number that a numeric string of the inputs stands for
NumeralOf == [s \in {"2", "0x2"} |-> Num(2, 1)]

\* C23: a create or update whose capacity is a numeric string has the outcome
\* of the same request with the number; an update without capacity that
\* succeeds leaves the capacity of the record as it was; a create whose
\* capacity is absent or not numeric is answered 400 "capacity must be a
\* positive integer" and stores nothing.
C23_CapacityCoerced ==
    [][/\ (/\ pc = "idle"
           /\ pc' # "idle"
           /\ req'.op \in {"create", "update"}
           /\ req'.body.capacity.t = "string"
           /\ req'.body.capacity.s \in DOMAIN NumeralOf)
          => LET b == Body(req'.body.name, NumeralOf[req'.body.capacity.s])
             IN  \E out \in {IF req'.op = "create"
                             THEN createSpace(b, DB)
                             ELSE updateSpace(req'.id, b, DB)} :
                     /\ out.resp = resp'
                     /\ out.db.store = store'
       /\ (/\ Handles("update")
           /\ req'.body.capacity = Undefined
           /\ resp'.status = 200)
          => \A r \in store' : \A o \in store :
                 (r.id = req'.id /\ o.id = req'.id) => r.capacity = o.capacity
       /\ (Handles("create") /\ Number(req'.body.capacity) = NaN)
          => /\ resp' = Response(400, "error", MsgCapacity, <<>>)
             /\ store' = store]_vars

\* C24: no operation has a timeout: a request whose store call never returns
\* stays unanswered for ever, a request is answered only when its store call
\* has returned, and every request whose store call has returned is answered.
C24_NoTimeout ==
    /\ [][\A p \in Procs :
            /\ inflight[p].state = "hung"
               => /\ inflight'[p].state = "hung"
                  /\ inflight'[p].resp = NoResponse
            /\ (inflight[p].state # "answered"
                /\ inflight'[p].state = "answered")
               => inflight[p].state = "settled"]_vars
    /\ \A p \in Procs :
          (inflight[p].state = "settled") ~> (inflight[p].state = "answered")

\* the store call of one request hangs; the other request arrived while it was
\* being handled, made its store call and was answered
C24_Witness ==
    /\ inflight[1].state = "hung"
    /\ inflight[2].state = "answered"
    /\ inflight[2].overlapped
    /\ inflight[2].calls > 0
    /\ inflight[2].resp.status = 201

\* the statuses a handler of the space feature answers with
HandlerStatuses == {200, 201, 204, 400, 404, 500}

\* C25: every handled request, whether its store call returned or failed, has
\* exactly one response, whose status is one of 200, 201, 204, 400, 404 and
\* 500; an error status carries an error body, and no thrown value leaves
\* the request without a response.
C25_OneResponse ==
    pc = "done"
    => /\ resp.kind \in {"dto", "list", "empty", "error"}
       /\ resp.status \in HandlerStatuses
       /\ resp.kind = "error" <=> resp.status \in {400, 404, 500}
       /\ resp.kind = "error" => resp.error # ""

\* a create whose store call failed (the database refuses connections) was
\* answered 500
C25_Witness ==
    /\ Done("create")
    /\ fault.on
    /\ calls = 1
    /\ resp.status = 500
    /\ resp.kind = "error"

\* body a supplies only a name and body b only a capacity
NameOnlyAndCapacityOnly(a, b) ==
    /\ a.name # Undefined /\ a.capacity = Undefined
    /\ b.name = Undefined /\ b.capacity # Undefined

\* C26: of two updates of the same record that supply disjoint fields (one
\* only the name, the other only the capacity) both take effect, whichever
\* is applied first: when the store call of the second is applied right
\* after that of the first, the response of the second is 200 and the record
\* holds the name of the one and the capacity of the other.
C26_DisjointUpdatesBothApply ==
    [][\A p, q \in Procs :
         (/\ p # q
          /\ Applied(p)
          /\ inflight[p].req.op = "update"
          /\ inflight[p].resp.status = 200
          /\ last = p
          /\ inflight[q].state = "running"
          /\ inflight[q].req.op = "update"
          /\ inflight[q].req.id = inflight[p].req.id
          /\ inflight'[q].state # "running"
          /\ \/ NameOnlyAndCapacityOnly(inflight[p].req.body, inflight[q].req.body)
             \/ NameOnlyAndCapacityOnly(inflight[q].req.body, inflight[p].req.body))
         => LET n == IF inflight[p].req.body.name # Undefined THEN p ELSE q
                c == IF inflight[p].req.body.name # Undefined THEN q ELSE p
            IN  \/ ~UpdateAccepted(inflight[q].req.body)
                \/ /\ inflight'[q].resp.status = 200
                   /\ \E rec \in store' :
                         /\ rec.id = inflight[p].req.id
                         /\ rec.name = NameWritten(n)
                         /\ rec.capacity = CapacityWritten(c)]_vars

\* the update of the capacity (process 2) arrived while the update of the
\* name (process 1) was being handled; both were answered 200, the capacity
\* last, and the record holds the new name and the new capacity
C26_Witness ==
    /\ BothUpdated(1, 2)
    /\ inflight[1].state = "answered"
    /\ inflight[2].state = "answered"
    /\ inflight[2].overlapped
    /\ last = 2
    /\ inflight[1].req.body = Body(Str("b"), Undefined)
    /\ inflight[2].req.body = Body(Undefined, Str("2"))
    /\ inflight[1].resp.status = 200
    /\ inflight[2].resp.status = 200
    /\ \E rec \in store : rec.name = "b" /\ rec.capacity = 2

\* process p has been answered for a delete, or an update, of the id
Answered(p, op, id) ==
    /\ inflight[p].state = "answered"
    /\ inflight[p].req.op = op
    /\ inflight[p].req.id = id

\* C27: of two deletes of the same id handled at once, of which one found the
\* record stored, exactly one is answered 204 and the other with an error
\* status; a record whose delete was answered 204 is not stored any more; and
\* an update whose store call is applied when the record is not stored (after
\* the delete) is answered with an error status and stores nothing.
C27_DeleteOnceAndForAll ==
    /\ [](\A p, q \in Procs : \A id \in IdInputs :
            (/\ p # q
             /\ Answered(p, "delete", id)
             /\ Answered(q, "delete", id)
             /\ inflight[p].found \/ inflight[q].found)
            => \E w \in {p, q} :
                  /\ inflight[w].resp.status = 204
                  /\ \A o \in {p, q} \ {w} : inflight[o].resp.status \in {404, 500})
    /\ [](\A p \in Procs : \A id \in IdInputs :
            (Answered(p, "delete", id) /\ inflight[p].resp.status = 204)
            => id \notin Ids(store))
    /\ [][\A q \in Procs :
            (/\ inflight[q].state = "running"
             /\ inflight[q].req.op = "update"
             /\ inflight[q].req.id \notin Ids(store)
             /\ inflight'[q].state # "running")
            => /\ inflight'[q].resp.status \in {400, 404, 500}
               /\ store' = store]_vars

\* the delete of process 2 arrived while the delete of process 1 was being
\* handled; process 1 was answered 204 and process 2 with 404
C27_Witness ==
    /\ Answered(1, "delete", Cuid(1))
    /\ Answered(2, "delete", Cuid(1))
    /\ inflight[2].overlapped
    /\ inflight[1].found
    /\ inflight[1].resp.status = 204
    /\ inflight[2].resp.status = 404
    /\ store = {}

\* the request was refused with the message, before any store call
RefusedWith(msg) ==
    /\ resp = Response(400, "error", msg, <<>>)
    /\ calls = 0
    /\ store = before.store

\* the usecase refuses a missing id before any store call
RefusesMissingId(r) ==
    r.threw /\ r.error.message = MsgIdRequired /\ r.calls = 0 /\ r.db = DB

\* C28: the first failing check decides the error, before any store call.
\* Create: a name that is no non-blank string is reported ("name is
\* required") whatever the capacity, an invalid capacity only when the name
\* is valid. Update: a blank name ("name cannot be empty") is reported before
\* an invalid capacity ("capacity must be a positive integer"), and "no
\* fields to update" only when no field was accepted. getById, update and
\* delete report a missing id ("id is required") before anything else.
C28_FirstCheckDecides ==
    /\ (Done("create") /\ ~NameIsValid(req.body.name))
       => RefusedWith(MsgNameRequired)
    /\ (/\ Done("create")
        /\ NameIsValid(req.body.name)
        /\ ~CapIsPositiveInteger(req.body.capacity))
       => RefusedWith(MsgCapacity)
    /\ (Done("update") /\ NameIsBlank(req.body.name))
       => RefusedWith(MsgNameEmpty)
    /\ (/\ Done("update")
        /\ ~NameIsBlank(req.body.name)
        /\ req.body.capacity # Undefined
        /\ ~CapIsPositiveInteger(req.body.capacity))
       => RefusedWith(MsgCapacity)
    /\ (/\ Done("update")
        /\ req.body.name.t # "string"
        /\ req.body.capacity = Undefined)
       => RefusedWith(MsgNoFields)
    /\ RefusesMissingId(getSpaceUsecase("", DB))
    /\ RefusesMissingId(deleteSpaceUsecase("", DB))
    /\ \A b \in {NoBody, Body(Str("  "), Num(0, 1)), Body(Str("b"), Num(1, 1))} :
          RefusesMissingId(updateSpaceUsecase("", b, DB))

\* C29: the update that the edit form sends when no field differs from the
\* snapshot, a PATCH of /api/spaces/:id with an empty input, is rejected by
\* the backend with 400 "no fields to update".
C29_EmptyUpdateRejected ==
    LET r == http.req
    IN  (/\ r.method = "PATCH"
         /\ Mounted(SpaceMount, r.path)
         /\ SubPath(r.path) \notin {"", "/"}
         /\ r.body = NoBody)
        => http.resp = Send(Response(400, "error", MsgNoFields, <<>>))

\* the process did a, and later b
DidBefore(a, b) ==
    \E i, j \in DOMAIN server.log :
        i < j /\ server.log[i] = a /\ server.log[j] = b

DidEver(a) == \E i \in DOMAIN server.log : server.log[i] = a

\* C30: the process listens only after $connect and then the test query
\* succeeded; once either has failed the process never listens, and it
\* exits with code 1; the process exits with code 0 only from a signal
\* handler, after a signal arrived and $disconnect completed.
C30_ListenAfterStoreCheck ==
    /\ (server.phase = "listening" \/ DidEver("listen")) =>
          /\ DidBefore("connected", "query test passed")
          /\ DidBefore("query test passed", "listen")
    /\ DidEver("connection failed") =>
          /\ ~DidEver("listen")
          /\ server.phase = "exited" =>
                /\ server.code = {1}
                /\ DidBefore("connection failed", "exit 1")
    /\ (server.code = {0} \/ DidEver("exit 0")) =>
          /\ server.phase = "exited"
          /\ DidBefore("disconnected", "exit 0")
          /\ \E sig \in ServerSignals : DidBefore(sig, "disconnected")

====
